---- MODULE Spec2Model ----
(***************************************************************************)
(* A state-machine model of the MCP test harness:                          *)
(*   - MCPTestFrameworkAdvanced v2 (lib/mcp-test-framework-advanced-v2.js, *)
(*     here src/unnamed/part_009): createTransport, connectToServer,       *)
(*     testServer, executeTest, generateReport and the CLI main;           *)
(*   - MCPTestFrameworkAdvanced v1 (src/mcp-test-framework-advanced.js):   *)
(*     connectToServer, testServer, executeTest, generateReport, CLI main. *)
(* Time is in milliseconds.  The protocol client library and the target    *)
(* server are the environment: every call on them succeeds, rejects or     *)
(* hangs nondeterministically.                                             *)
(***************************************************************************)
EXTENDS Integers, Sequences, FiniteSets, TLC

(***************************************************************************)
(* Bounds of the model.                                                    *)
(***************************************************************************)
\* options.retryAttempts ranges over 0..MaxRetry
MaxRetry == 1
\* environment faults per framework instance: failed connects, failed
\* liveness calls, test functions that do not return in time
MaxFaults == 2
\* testServer calls per framework instance
MaxSuites == 2
\* test executions planned, in total, by a framework instance that runs
\* more than one suite (a single suite is as long as its plan)
MaxTests == 2

(***************************************************************************)
(* Program constants.                                                      *)
(***************************************************************************)
DefaultTimeout == 30000
EdgeCaseTimeout == 100
ConnectionTestTimeout == 5000

Undefined == "undefined"
NoDetails == [undefined |-> TRUE]
EmptyDetails == [empty |-> TRUE]

(***************************************************************************)
(* Transport descriptors: type plus the fields createTransport requires.   *)
(***************************************************************************)
Descriptor(type, command, url) == [type |-> type, command |-> command, url |-> url]

ValidDescriptors ==
    { Descriptor("stdio", "node server.js", Undefined),
      Descriptor("sse", Undefined, "http://localhost:3000/sse"),
      Descriptor("streamableHttp", Undefined, "http://localhost:3000/mcp") }

\* test-edge-cases.js: { type: 'sse' } and { type: 'invalid-transport', url }
InvalidDescriptors ==
    { Descriptor("sse", Undefined, Undefined),
      Descriptor("invalid-transport", Undefined, "http://localhost:3000") }

Descriptors == ValidDescriptors \cup InvalidDescriptors

(***************************************************************************)
(* Error values.  type is "Error" for Error instances (MCPTestError and    *)
(* its subclasses included), "nullish" for undefined/null and "plain" for  *)
(* any other non-Error value; reading .message of a nullish value throws.  *)
(***************************************************************************)
MCPTestError(message, code, details) ==
    [type |-> "Error", message |-> message, code |-> code, details |-> details]

PlainError(message) ==
    [type |-> "Error", message |-> message, code |-> Undefined, details |-> NoDetails]

ConnectionError(message, transport, details) ==
    MCPTestError(message, "CONNECTION_ERROR", [transport |-> transport] @@ details)

TestTimeoutError(testName, timeout) ==
    MCPTestError("Test \"" \o testName \o "\" timed out after " \o ToString(timeout) \o "ms",
                 "TEST_TIMEOUT",
                 [testName |-> testName, timeout |-> timeout])

TypeErrorReadingMessage ==
    [type |-> "Error", message |-> "Cannot read properties of undefined (reading 'message')",
     code |-> Undefined, details |-> NoDetails]

NotIterableError ==
    [type |-> "Error", message |-> "is not iterable",
     code |-> Undefined, details |-> NoDetails]

NullishValue == [type |-> "nullish", message |-> Undefined, code |-> Undefined, details |-> NoDetails]
PlainValue == [type |-> "plain", message |-> Undefined, code |-> Undefined, details |-> NoDetails]

(***************************************************************************)
(* createTransport: validation of the descriptor; construction does no I/O *)
(***************************************************************************)
createTransport(transportConfig) ==
    CASE transportConfig.type = "stdio" ->
           IF transportConfig.command = Undefined
           THEN [ok |-> FALSE,
                 error |-> MCPTestError("stdio transport requires command parameter",
                                        "INVALID_CONFIG", EmptyDetails)]
           ELSE [ok |-> TRUE, error |-> NullishValue]
      [] transportConfig.type = "sse" ->
           IF transportConfig.url = Undefined
           THEN [ok |-> FALSE,
                 error |-> MCPTestError("SSE transport requires url parameter",
                                        "INVALID_CONFIG", EmptyDetails)]
           ELSE [ok |-> TRUE, error |-> NullishValue]
      [] transportConfig.type = "streamableHttp" ->
           IF transportConfig.url = Undefined
           THEN [ok |-> FALSE,
                 error |-> MCPTestError("streamableHttp transport requires url parameter",
                                        "INVALID_CONFIG", EmptyDetails)]
           ELSE [ok |-> TRUE, error |-> NullishValue]
      [] OTHER ->
           [ok |-> FALSE,
            error |-> MCPTestError("Unknown transport type", "INVALID_TRANSPORT", EmptyDetails)]

(***************************************************************************)
(* Test functions as the executor sees them.  A behaviour says how the     *)
(* function settles: it returns, throws synchronously, rejects, or never   *)
(* settles; `at` is the time of settling after the call, `val` the value   *)
(* thrown.                                                                 *)
(***************************************************************************)
Behaviour(kind, at, val) == [kind |-> kind, at |-> at, val |-> val]

\* settle times around the timeout: at once, just before, at, just after
SettleTimes(timeout) == {0, timeout - 1, timeout, timeout + 1}

\* the two that decide a suite's course: well before and after the timeout
SuiteTimes(timeout) == {0, timeout + 1}

\* values a caller-supplied function can throw
ThrownValues == {PlainError("test failed"), NullishValue, PlainValue}

\* caller-supplied functions (custom and transport-specific tests, or any
\* function handed to executeTest)
AnyBehaviours(times) ==
    { Behaviour("returns", t, NullishValue) : t \in times }
      \cup { Behaviour("throws", 0, v) : v \in ThrownValues }
      \cup { Behaviour("rejects", t, v) : t \in times, v \in ThrownValues }
      \cup { Behaviour("never", 0, NullishValue) }

TestResult(name, status, error, errorCode, errorDetails) ==
    [name |-> name, status |-> status, error |-> error,
     errorCode |-> errorCode, errorDetails |-> errorDetails]

NoTest == TestResult(Undefined, Undefined, Undefined, Undefined, NoDetails)

\* a timer armed with the default duration whatever options.timeout is
TimerWinsDefault(fn, timeout, tie) ==
    \/ fn.kind = "never"
    \/ fn.kind # "throws" /\ fn.at > DefaultTimeout
    \/ fn.kind # "throws" /\ fn.at = DefaultTimeout /\ tie = "timer"

\* the race of fn() against the timeout timer: the timer wins when fn has
\* not settled at `timeout`; at exactly `timeout` either may be first
TimerWins(fn, timeout, tie) ==
    \/ fn.kind = "never"
    \/ fn.kind # "throws" /\ fn.at > timeout
    \/ fn.kind # "throws" /\ fn.at = timeout /\ tie = "timer"

\* an executor whose catch block rethrows what the test function threw
executeTestRethrows(name, fn, timeout, tie) ==
    LET timedOut == TimerWins(fn, timeout, tie)
        error == IF timedOut THEN TestTimeoutError(name, timeout) ELSE fn.val
    IN  IF ~timedOut /\ fn.kind = "returns"
        THEN [raised |-> FALSE, error |-> NullishValue,
              test |-> TestResult(name, "passed", Undefined, Undefined, NoDetails)]
        ELSE [raised |-> TRUE,
              error |-> IF error.type = "nullish" THEN TypeErrorReadingMessage ELSE error,
              test |-> NoTest]

(***************************************************************************)
(* executeTest (v2): the TestResult for one run of fn under the timeout    *)
(* race, or the error that leaves executeTest when its catch block throws. *)
(***************************************************************************)
executeTest(name, fn, timeout, tie) ==
    LET timedOut == TimerWins(fn, timeout, tie)
        error == IF timedOut THEN TestTimeoutError(name, timeout) ELSE fn.val
    IN  IF ~timedOut /\ fn.kind = "returns"
        THEN [raised |-> FALSE, error |-> NullishValue,
              test |-> TestResult(name, "passed", Undefined, Undefined, NoDetails)]
        ELSE IF error.type = "nullish"
        THEN \* test.error = error.message throws inside the catch block
             [raised |-> TRUE, error |-> TypeErrorReadingMessage, test |-> NoTest]
        ELSE [raised |-> FALSE, error |-> NullishValue,
              test |-> TestResult(name, "failed", error.message, error.code, error.details)]

(***************************************************************************)
(* executeTest (v1): the same race; the timeout is a plain Error and the   *)
(* result keeps the message only.                                          *)
(***************************************************************************)
executeTestV1(name, fn, timeout, tie) ==
    LET timedOut == TimerWins(fn, timeout, tie)
        error == IF timedOut THEN PlainError("Test timeout") ELSE fn.val
    IN  IF ~timedOut /\ fn.kind = "returns"
        THEN [raised |-> FALSE, error |-> NullishValue,
              test |-> TestResult(name, "passed", Undefined, Undefined, NoDetails)]
        ELSE IF error.type = "nullish"
        THEN [raised |-> TRUE, error |-> TypeErrorReadingMessage, test |-> NoTest]
        ELSE [raised |-> FALSE, error |-> NullishValue,
              test |-> TestResult(name, "failed", error.message, Undefined, NoDetails)]

(***************************************************************************)
(* Test suites.  customTests and transportTests hold the number of         *)
(* caller-supplied tests, 0 when the field is absent and NotIterable when  *)
(* the field is a truthy value that for..of cannot iterate.                *)
(* transportType names the one key of tests.transportTests.                *)
(***************************************************************************)
NotIterable == -1

Suite(disc, stab, comp, perf, errh, custom, tools, ttype, tcount) ==
    [testDiscovery |-> disc, testStability |-> stab,
     testProtocolCompliance |-> comp, testPerformance |-> perf,
     testErrorHandling |-> errh, customTests |-> custom, toolTests |-> tools,
     transportType |-> ttype, transportTests |-> tcount]

\* testServer(config) and testServer(config, {}): the defaults
DefaultSuite == Suite(TRUE, TRUE, FALSE, FALSE, FALSE, 0, 0, Undefined, 0)
\* { testDiscovery: false, testStability: false }
EmptySuite == Suite(FALSE, FALSE, FALSE, FALSE, FALSE, 0, 0, Undefined, 0)
\* the suites the CLI builds from --compliance, --performance and
\* --error-handling: no flag, one flag, or all three
CliFlags ==
    { f \in [c : BOOLEAN, p : BOOLEAN, e : BOOLEAN] :
        Cardinality({x \in {"c", "p", "e"} : f[x]}) \in {0, 1, 3} }

CliSuites ==
    { Suite(TRUE, TRUE, f.c, f.p, f.e, 0, 0, Undefined, 0) : f \in CliFlags }
\* library callers: caller-supplied tests
CallerSuites ==
    { Suite(FALSE, FALSE, FALSE, FALSE, FALSE, 1, 0, Undefined, 0),
      Suite(FALSE, FALSE, FALSE, FALSE, FALSE, 2, 1, "sse", 1),
      Suite(FALSE, FALSE, TRUE, FALSE, FALSE, 0, 0, "stdio", NotIterable),
      Suite(TRUE, FALSE, FALSE, FALSE, FALSE, NotIterable, 1, "streamableHttp", 1),
      \* every phase enabled, with one test of each caller-supplied kind
      Suite(TRUE, TRUE, TRUE, TRUE, TRUE, 1, 1, "sse", 1) }

Suites == {DefaultSuite, EmptySuite} \cup CliSuites \cup CallerSuites

Step(phase, name, kind) == [phase |-> phase, name |-> name, kind |-> kind]

DiscoveryTests ==
    << Step("Discovery", "List Tools", "builtin"),
       Step("Discovery", "List Resources", "builtin"),
       Step("Discovery", "List Prompts", "builtin") >>

StabilityTests ==
    << Step("Stability", "Rapid Sequential Requests", "builtin"),
       Step("Stability", "Concurrent Requests", "builtin"),
       Step("Stability", "Memory Stability", "builtin") >>

ComplianceTests ==
    << Step("Compliance", "Valid JSON-RPC responses", "builtin"),
       Step("Compliance", "Error handling compliance", "catchall") >>

PerformanceTests ==
    << Step("Performance", "Tool discovery performance", "builtin"),
       Step("Performance", "Concurrent request handling", "builtin") >>

ErrorHandlingTests ==
    << Step("ErrorHandling", "Invalid tool name handling", "catchall"),
       Step("ErrorHandling", "Malformed arguments handling", "builtin") >>

StabilityTestsV1 ==
    << Step("Stability", "Rapid Sequential Requests", "builtin"),
       Step("Stability", "Concurrent Requests", "builtin") >>

CustomNames == <<"Custom Test 1", "Custom Test 2", "Custom Test 3">>
ToolNames == <<"Tool Test: add", "Tool Test: multiply", "Tool Test: echo">>
TransportNames == <<"Transport Test 1", "Transport Test 2", "Transport Test 3">>

\* a for..of loop over n caller-supplied tests; over a non-iterable it throws
Loop(phase, names, kind, n) ==
    IF n = NotIterable THEN << Step(phase, Undefined, "notIterable") >>
    ELSE [i \in 1..n |-> Step(phase, names[i], kind)]

When(cond, steps) == IF cond THEN steps ELSE << >>

\* a testServer that runs the stability tests after the caller's tests
PlanStabilityLast(t, type) ==
    When(t.testDiscovery, DiscoveryTests)
      \o When(t.testProtocolCompliance, ComplianceTests)
      \o When(t.testPerformance, PerformanceTests)
      \o When(t.testErrorHandling, ErrorHandlingTests)
      \o Loop("CustomTests", CustomNames, "custom", t.customTests)
      \o Loop("ToolTests", ToolNames, "tool", t.toolTests)
      \o When(t.transportType = type,
              Loop("TransportSpecificTests", TransportNames, "custom", t.transportTests))
      \o When(t.testStability, StabilityTests)

\* the steps of testServer (v2) between connecting and closing, in order
Plan(t, type) ==
    When(t.testDiscovery, DiscoveryTests)
      \o When(t.testStability, StabilityTests)
      \o When(t.testProtocolCompliance, ComplianceTests)
      \o When(t.testPerformance, PerformanceTests)
      \o When(t.testErrorHandling, ErrorHandlingTests)
      \o Loop("CustomTests", CustomNames, "custom", t.customTests)
      \o Loop("ToolTests", ToolNames, "tool", t.toolTests)
      \o When(t.transportType = type,
              Loop("TransportSpecificTests", TransportNames, "custom", t.transportTests))

\* the steps of testServer (v1): customTests and toolTests are guarded by
\* Array.isArray, transportTests is not
PlanV1(t, type) ==
    When(t.testDiscovery, DiscoveryTests)
      \o When(t.transportType = type,
              Loop("TransportSpecificTests", TransportNames, "custom", t.transportTests))
      \o When(t.customTests # NotIterable, Loop("CustomTests", CustomNames, "custom", t.customTests))
      \o Loop("ToolTests", ToolNames, "tool", t.toolTests)
      \o When(t.testStability, StabilityTestsV1)

\* test executions a plan asks for
PlanTests(plan) == Cardinality({i \in DOMAIN plan : plan[i].kind # "notIterable"})

(***************************************************************************)
(* What the function of a step can do.  The built-in tests await calls on  *)
(* the client: they return, reject with the client's Error, or hang; the   *)
(* "catchall" ones catch every rejection themselves.  Tool tests reject    *)
(* with an MCPTestError.                                                   *)
(***************************************************************************)
StepBehaviours(kind, times) ==
    CASE kind = "builtin" ->
           { Behaviour("returns", t, NullishValue) : t \in times }
             \cup { Behaviour("rejects", t, PlainError("request failed")) : t \in times }
             \cup { Behaviour("never", 0, NullishValue) }
      [] kind = "catchall" ->
           { Behaviour("returns", t, NullishValue) : t \in times }
             \cup { Behaviour("never", 0, NullishValue) }
      [] kind = "tool" ->
           { Behaviour("returns", t, NullishValue) : t \in times }
             \cup { Behaviour("rejects", t, MCPTestError("Tool not found", "TOOL_NOT_FOUND", NoDetails))
                      : t \in times }
             \cup { Behaviour("never", 0, NullishValue) }
      [] OTHER -> AnyBehaviours(times)

(***************************************************************************)
(* State.                                                                  *)
(***************************************************************************)
VARIABLES
    impl,            \* "v2" or "v1": which framework class this instance is
    options,         \* this.options: retryAttempts, timeout
    metrics,         \* this.metrics: connectionAttempts, totalTestsRun, totalAssertions
    results,         \* this.results: the SuiteResults appended so far
    clients,         \* every Client whose connect() completed: open, closeCalls
    pc,              \* where the running caller stands
    transportConfig, \* testServer's argument
    tests,           \* testServer's argument
    result,          \* testServer's local result
    client,          \* testServer's local client (0: undefined)
    connecting,      \* connectToServer's local client awaiting listTools (0: none)
    attempt,         \* connectToServer's loop variable
    lastError,       \* connectToServer's local lastError
    idx,             \* the step of the plan testServer is at
    report,          \* what generateReport returned to the caller
    exitCode,        \* the status given to process.exit (-1: still running)
    exec,            \* a direct call of executeTest: its arguments and outcome
    call,            \* a direct call of another method: its arguments and outcome
    faults,          \* environment faults so far
    planned,            \* testServer calls plus planned test executions so far
    entryAttempts,   \* metrics.connectionAttempts when connectToServer was entered
    attemptLog,      \* outcome of every attempt of the current connectToServer call
    sessions         \* per SuiteResult, the client connectToServer returned (0: none)

vars == << impl, options, metrics, results, clients, pc, transportConfig, tests,
           result, client, connecting, attempt, lastError, idx, report, exitCode,
           exec, call, faults, planned, entryAttempts, attemptLog, sessions >>

NoError == [message |-> Undefined, code |-> Undefined, details |-> NoDetails]

NoReport ==
    [generated |-> FALSE, raised |-> FALSE,
     metrics |-> [connectionAttempts |-> 0, totalTestsRun |-> 0, totalAssertions |-> 0],
     summary |-> [total |-> 0, passed |-> 0, failed |-> 0, byTransport |-> << >>,
                  totalTests |-> 0, passedTests |-> 0, failedTests |-> 0],
     results |-> << >>, serialized |-> << >>, saved |-> FALSE]

NoExec ==
    [name |-> Undefined, fn |-> Behaviour("never", 0, NullishValue), tie |-> "fn",
     done |-> FALSE, out |-> [raised |-> FALSE, error |-> NullishValue, test |-> NoTest]]

NoCall == [method |-> Undefined, done |-> FALSE]

NoResult ==
    [transport |-> Undefined, status |-> Undefined, error |-> NoError, tests |-> << >>,
     metrics |-> [totalTests |-> 0, passedTests |-> 0, failedTests |-> 0]]

\* live: the post-connect listTools call on it succeeded
NewClient == [open |-> TRUE, closeCalls |-> 0, live |-> FALSE]

TransportLabel(config) == IF config.type = Undefined THEN "stdio" ELSE config.type

CountStatus(ts, status) == Cardinality({i \in DOMAIN ts : ts[i].status = status})

calculateMetrics(r) ==
    [totalTests |-> Len(r.tests),
     passedTests |-> CountStatus(r.tests, "passed"),
     failedTests |-> CountStatus(r.tests, "failed")]

CurrentPlan == IF impl = "v2" THEN Plan(tests, transportConfig.type)
               ELSE PlanV1(tests, transportConfig.type)

Idle ==
    /\ transportConfig = Descriptor(Undefined, Undefined, Undefined)
    /\ tests = EmptySuite
    /\ result = NoResult
    /\ client = 0 /\ connecting = 0 /\ attempt = 0 /\ lastError = NullishValue /\ idx = 0
    /\ report = NoReport /\ exitCode = -1
    /\ faults = 0 /\ planned = 0 /\ entryAttempts = 0 /\ attemptLog = << >>
    /\ sessions = << >> /\ results = << >> /\ clients = << >>
    /\ metrics = [connectionAttempts |-> 0, totalTestsRun |-> 0, totalAssertions |-> 0]

\* the constructor: retryAttempts: options.retryAttempts || 0,
\* timeout: options.timeout || 30000 (0 stands for an absent option)
Constructor(retryAttempts, timeout) ==
    [retryAttempts |-> retryAttempts,
     timeout |-> IF timeout = 0 THEN DefaultTimeout ELSE timeout]

\* suites run under the default timeout; v1 has no retryAttempts
Init ==
    /\ impl \in {"v1", "v2"}
    /\ options \in {Constructor(r, 0) : r \in 0..MaxRetry}
    /\ impl = "v1" => options.retryAttempts = 0
    /\ pc = "idle"
    /\ exec = NoExec
    /\ call = NoCall
    /\ Idle

(***************************************************************************)
(* testServer: entry.                                                      *)
(***************************************************************************)
TestServerCall ==
    /\ pc = "idle"
    /\ Len(results) < MaxSuites
    /\ \E d \in Descriptors, t \in Suites :
         LET plan == IF impl = "v2" THEN Plan(t, d.type) ELSE PlanV1(t, d.type) IN
         \* the calls after the first are testServerMultiTransport's:
         \* the same tests for every descriptor
         /\ Len(results) > 0 => t = tests /\ planned + PlanTests(plan) <= MaxTests
         /\ planned' = planned + PlanTests(plan)
         /\ transportConfig' = d
         /\ tests' = t
         /\ result' = [NoResult EXCEPT !.transport =
                          IF impl = "v2" THEN d.type ELSE TransportLabel(d)]
    /\ pc' = "connect"
    /\ client' = 0 /\ connecting' = 0 /\ attempt' = 0 /\ lastError' = NullishValue
    /\ idx' = 0
    /\ entryAttempts' = metrics.connectionAttempts
    /\ attemptLog' = << >>
    /\ UNCHANGED << impl, options, metrics, results, clients, report, exitCode,
                    exec, call, faults, sessions >>

\* a catch block that starts the SuiteResult's tests list afresh
CaughtDropsTests(error) ==
    [result EXCEPT !.status = "failed",
                   !.error = [message |-> error.message, code |-> error.code,
                              details |-> error.details],
                   !.tests = << >>]

\* a catch block that stores the error and leaves result.status alone
CaughtWithoutStatus(error) ==
    [result EXCEPT !.error = [message |-> error.message, code |-> error.code,
                              details |-> error.details]]

\* the catch block of testServer (v2), entered with the error thrown
Caught(error) ==
    [result EXCEPT !.status = "failed",
                   !.error = [message |-> error.message, code |-> error.code,
                              details |-> error.details]]

\* the catch block of testServer (v1): result.error = error.message
CaughtV1(error) ==
    [result EXCEPT !.status = "failed",
                   !.error = [message |-> error.message, code |-> Undefined,
                              details |-> NoDetails]]

\* the tail of the finally block of testServer (v2)
Finalized(r) == [r EXCEPT !.metrics = calculateMetrics(r)]

(***************************************************************************)
(* connectToServer (v2): one pass of the retry loop up to the await of     *)
(* client.connect; then the liveness call; then the throw after the loop.  *)
(***************************************************************************)
\* a loop that makes retryAttempts attempts, not retryAttempts + 1
MoreAttemptsStrict(a, retryAttempts) == a < retryAttempts

\* the loop condition: attempt <= this.options.retryAttempts
MoreAttempts(a, retryAttempts) == a <= retryAttempts

\* a loop exit that rethrows the last attempt's error as it is
ConnectFailureRethrows(transportType, retryAttempts, last) == last

\* the error thrown when the loop ends without a connection
ConnectFailure(transportType, retryAttempts, last) ==
    ConnectionError("Failed to connect after " \o ToString(retryAttempts + 1) \o " attempts",
                    transportType, [lastError |-> last.message])

\* the error thrown when the liveness call rejects
VerifyFailure(transportType) ==
    ConnectionError("Connection established but server not responding correctly",
                    transportType, [verifyError |-> "request failed"])

ConnectAttempt ==
    /\ impl = "v2" /\ pc = "connect"
    /\ MoreAttempts(attempt, options.retryAttempts)
    /\ metrics' = [metrics EXCEPT !.connectionAttempts = @ + 1]
    /\ LET t == createTransport(transportConfig) IN
       IF ~t.ok
       THEN /\ lastError' = t.error
            /\ attempt' = attempt + 1
            /\ attemptLog' = Append(attemptLog, "config")
            /\ UNCHANGED << pc, clients, connecting, faults >>
       ELSE \/ /\ faults < MaxFaults
               /\ faults' = faults + 1
               /\ lastError' = PlainError("connect failed")
               /\ attempt' = attempt + 1
               /\ attemptLog' = Append(attemptLog, "connect")
               /\ UNCHANGED << pc, clients, connecting >>
            \/ /\ clients' = Append(clients, NewClient)
               /\ connecting' = Len(clients) + 1
               /\ pc' = "verify"
               /\ UNCHANGED << lastError, attempt, attemptLog, faults >>
    /\ UNCHANGED << impl, options, results, transportConfig, tests, result, client,
                    idx, report, exitCode, exec, call, planned, entryAttempts, sessions >>

VerifyConnection ==
    /\ impl = "v2" /\ pc = "verify"
    /\ \/ /\ client' = connecting
          /\ clients' = [clients EXCEPT ![connecting].live = TRUE]
          /\ pc' = "run"
          /\ idx' = 1
          /\ attemptLog' = Append(attemptLog, "ok")
          /\ UNCHANGED << lastError, attempt, faults >>
       \/ /\ faults < MaxFaults
          /\ faults' = faults + 1
          /\ lastError' = VerifyFailure(TransportLabel(transportConfig))
          /\ attempt' = attempt + 1
          /\ attemptLog' = Append(attemptLog, "verify")
          /\ pc' = "connect"
          /\ UNCHANGED << client, clients, idx >>
    /\ connecting' = 0
    /\ UNCHANGED << impl, options, metrics, results, transportConfig, tests,
                    result, report, exitCode, exec, call, planned, entryAttempts, sessions >>

ConnectExhausted ==
    /\ impl = "v2" /\ pc = "connect"
    /\ ~MoreAttempts(attempt, options.retryAttempts)
    /\ LET error == ConnectFailure(TransportLabel(transportConfig), options.retryAttempts,
                                    lastError)
       IN /\ result' = Finalized(Caught(error))
          /\ results' = Append(results, result')
    /\ sessions' = Append(sessions, 0)
    /\ pc' = "idle"
    /\ UNCHANGED << impl, options, metrics, clients, transportConfig, tests, client,
                    connecting, attempt, lastError, idx, report, exitCode, exec, call,
                    faults, planned, entryAttempts, attemptLog >>

(***************************************************************************)
(* connectToServer (v1): one attempt, no liveness call; any error goes to  *)
(* the catch block of testServer (v1), which appends the result.           *)
(***************************************************************************)
ConnectV1 ==
    /\ impl = "v1" /\ pc = "connect"
    /\ LET t == createTransport(transportConfig) IN
       \/ /\ t.ok
          /\ clients' = Append(clients, NewClient)
          /\ client' = Len(clients) + 1
          /\ pc' = "run"
          /\ idx' = 1
          /\ attemptLog' = Append(attemptLog, "ok")
          /\ UNCHANGED << result, results, sessions, faults >>
       \/ /\ t.ok => faults < MaxFaults
          /\ faults' = IF t.ok THEN faults + 1 ELSE faults
          /\ result' = CaughtV1(IF t.ok THEN PlainError("connect failed") ELSE t.error)
          /\ results' = Append(results, result')
          /\ sessions' = Append(sessions, 0)
          /\ pc' = "idle"
          /\ attemptLog' = Append(attemptLog, IF t.ok THEN "connect" ELSE "config")
          /\ UNCHANGED << clients, client, idx >>
    /\ UNCHANGED << impl, options, metrics, transportConfig, tests, connecting,
                    attempt, lastError, report, exitCode, exec, call, planned, entryAttempts >>

(***************************************************************************)
(* The phases of testServer: one step of the plan per action.  A test step *)
(* is runDiscoveryTests' / runCustomTest's / runEnhancedToolTest's         *)
(* "await this.executeTest(...); result.tests.push(testResult)".           *)
(***************************************************************************)
RunStep ==
    /\ pc = "run" /\ idx <= Len(CurrentPlan)
    /\ LET step == CurrentPlan[idx] IN
       \E fn \in StepBehaviours(step.kind, SuiteTimes(options.timeout)), tie \in {"timer"} :
         LET out == IF step.kind = "notIterable"
                    THEN [raised |-> TRUE, error |-> NotIterableError, test |-> NoTest]
                    ELSE IF impl = "v2"
                    THEN executeTest(step.name, fn, options.timeout, tie)
                    ELSE executeTestV1(step.name, fn, options.timeout, tie)
             fault == step.kind # "notIterable" /\ (out.raised \/ out.test.status = "failed")
         IN /\ fault => faults < MaxFaults
            /\ faults' = IF fault THEN faults + 1 ELSE faults
            /\ metrics' = IF impl = "v2" /\ step.kind # "notIterable"
                          THEN [metrics EXCEPT !.totalTestsRun = @ + 1]
                          ELSE metrics
            /\ IF ~out.raised
               THEN /\ result' = [result EXCEPT !.tests = Append(@, out.test)]
                    /\ idx' = idx + 1
                    /\ UNCHANGED << pc, results, sessions >>
               ELSE IF impl = "v2"
               THEN /\ result' = Caught(out.error)
                    /\ pc' = "closing"
                    /\ UNCHANGED << idx, results, sessions >>
               ELSE /\ result' = CaughtV1(out.error)
                    /\ results' = Append(results, result')
                    /\ sessions' = Append(sessions, client)
                    /\ pc' = "idle"
                    /\ UNCHANGED idx
    /\ UNCHANGED << impl, options, clients, transportConfig, tests, client, connecting,
                    attempt, lastError, report, exitCode, exec, call, planned, entryAttempts,
                    attemptLog >>

\* a testServer whose suite passes only when every test of it passed
PhasesDoneStrict ==
    /\ impl = "v2" /\ pc = "run" /\ idx > Len(CurrentPlan)
    /\ result' = [result EXCEPT !.status =
                     IF CountStatus(result.tests, "failed") > 0 THEN "failed"
                     ELSE "passed"]
    /\ pc' = "closing"
    /\ UNCHANGED << impl, options, metrics, results, clients, transportConfig, tests,
                    client, connecting, attempt, lastError, idx, report, exitCode,
                    exec, call, faults, planned, entryAttempts, attemptLog, sessions >>

\* testServer (v2): result.status = 'passed' at the end of the try block
PhasesDone ==
    /\ impl = "v2" /\ pc = "run" /\ idx > Len(CurrentPlan)
    /\ result' = [result EXCEPT !.status = "passed"]
    /\ pc' = "closing"
    /\ UNCHANGED << impl, options, metrics, results, clients, transportConfig, tests,
                    client, connecting, attempt, lastError, idx, report, exitCode,
                    exec, call, faults, planned, entryAttempts, attemptLog, sessions >>

\* client.close() marks the client closed whether or not close() rejects
Closed(c) == [clients EXCEPT ![c].open = FALSE, ![c].closeCalls = @ + 1]

\* testServer (v2): the finally block up to the await of client.close();
\* a rejecting close is logged and changes nothing else
CloseSession ==
    /\ impl = "v2" /\ pc = "closing"
    /\ clients' = IF client # 0 THEN Closed(client) ELSE clients
    /\ pc' = "append"
    /\ UNCHANGED << impl, options, metrics, results, transportConfig, tests, result,
                    client, connecting, attempt, lastError, idx, report, exitCode,
                    exec, call, faults, planned, entryAttempts, attemptLog, sessions >>

\* testServer (v1): await client.close() as the last statement but one of
\* the try block; a rejecting close lands in the catch block
CloseSessionV1 ==
    /\ impl = "v1" /\ pc = "run" /\ idx > Len(CurrentPlan)
    /\ clients' = Closed(client)
    /\ \/ /\ result' = [result EXCEPT !.status = "passed"]
          /\ UNCHANGED faults
       \/ /\ faults < MaxFaults
          /\ faults' = faults + 1
          /\ result' = CaughtV1(PlainError("close failed"))
    /\ pc' = "append"
    /\ UNCHANGED << impl, options, metrics, results, transportConfig, tests, client,
                    connecting, attempt, lastError, idx, report, exitCode, exec, call,
                    planned, entryAttempts, attemptLog, sessions >>

\* this.results.push(result), after calculateMetrics in v2
AppendResult ==
    /\ pc = "append"
    /\ result' = IF impl = "v2" THEN Finalized(result) ELSE result
    /\ results' = Append(results, result')
    /\ sessions' = Append(sessions, client)
    /\ pc' = "idle"
    /\ UNCHANGED << impl, options, metrics, clients, transportConfig, tests, client,
                    connecting, attempt, lastError, idx, report, exitCode, exec, call,
                    faults, planned, entryAttempts, attemptLog >>

(***************************************************************************)
(* generateReport and the CLI main.                                        *)
(***************************************************************************)
SumTests(rs, status) ==
    LET RECURSIVE Sum(_)
        Sum(i) == IF i = 0 THEN 0
                  ELSE Sum(i - 1) + (IF status = Undefined THEN Len(rs[i].tests)
                                     ELSE CountStatus(rs[i].tests, status))
    IN Sum(Len(rs))

\* a summary whose else branch counts nothing
getTransportSummaryPassedOnly(rs) ==
    [t \in {rs[i].transport : i \in DOMAIN rs} |->
       LET suites == {i \in DOMAIN rs : rs[i].transport = t} IN
       [total |-> Cardinality(suites),
        passed |-> Cardinality({i \in suites : rs[i].status = "passed"}),
        failed |-> 0]]

\* getTransportSummary: per transport label, total++ for every SuiteResult,
\* passed++ when its status is 'passed' and failed++ otherwise
getTransportSummary(rs) ==
    [t \in {rs[i].transport : i \in DOMAIN rs} |->
       LET suites == {i \in DOMAIN rs : rs[i].transport = t} IN
       [total |-> Cardinality(suites),
        passed |-> Cardinality({i \in suites : rs[i].status = "passed"}),
        failed |-> Cardinality({i \in suites : rs[i].status # "passed"})]]

Summary(rs) ==
    [total |-> Len(rs),
     passed |-> CountStatus(rs, "passed"),
     failed |-> CountStatus(rs, "failed"),
     byTransport |-> getTransportSummary(rs),
     totalTests |-> SumTests(rs, Undefined),
     passedTests |-> SumTests(rs, "passed"),
     failedTests |-> SumTests(rs, "failed")]

\* report.results is this.results itself, not a copy of it
ThisResults == "this.results"

\* a generateReport whose failed write is raised by both versions
GenerateReportRaising ==
    /\ pc = "idle" /\ Len(results) > 0
    /\ \E writeOk \in BOOLEAN :
         report' = IF ~writeOk
                   THEN [NoReport EXCEPT !.raised = TRUE]
                   ELSE [generated |-> TRUE, raised |-> FALSE, metrics |-> metrics,
                         summary |-> Summary(results),
                         results |-> ThisResults, serialized |-> results,
                         saved |-> TRUE]
    /\ pc' = "reported"
    /\ UNCHANGED << impl, options, metrics, results, clients, transportConfig, tests,
                    result, client, connecting, attempt, lastError, idx, exitCode,
                    exec, call, faults, planned, entryAttempts, attemptLog, sessions >>

\* v2 logs a failed write and returns the report; v1 lets the write error out;
\* serialized: the results list as JSON.stringify(report) saw it; saved: the
\* artifact is in the output directory
GenerateReport ==
    /\ pc = "idle" /\ Len(results) > 0
    /\ \E writeOk \in BOOLEAN :
         report' = IF impl = "v1" /\ ~writeOk
                   THEN [NoReport EXCEPT !.raised = TRUE]
                   ELSE [generated |-> TRUE, raised |-> FALSE, metrics |-> metrics,
                         summary |-> Summary(results),
                         results |-> ThisResults, serialized |-> results,
                         saved |-> writeOk]
    /\ pc' = "reported"
    /\ UNCHANGED << impl, options, metrics, results, clients, transportConfig, tests,
                    result, client, connecting, attempt, lastError, idx, exitCode,
                    exec, call, faults, planned, entryAttempts, attemptLog, sessions >>

\* an exit status that tolerates one failed suite
ExitStatusOffByOne(raised, failed) == IF raised THEN 1 ELSE IF failed > 1 THEN 1 ELSE 0

\* process.exit(report.summary.failed > 0 ? 1 : 0), or exit(1) from the catch
ExitStatus(raised, failed) == IF raised THEN 1 ELSE IF failed > 0 THEN 1 ELSE 0

\* the runs the CLI main makes: one testServer call with the suite it builds
CliRun ==
    /\ Len(results) = 1
    /\ IF impl = "v2" THEN tests \in CliSuites ELSE tests = DefaultSuite

CliExit ==
    /\ pc = "reported" /\ CliRun
    /\ exitCode' = ExitStatus(report.raised, report.summary.failed)
    /\ pc' = "exited"
    /\ UNCHANGED << impl, options, metrics, results, clients, transportConfig, tests,
                    result, client, connecting, attempt, lastError, idx, report,
                    exec, call, faults, planned, entryAttempts, attemptLog, sessions >>

Next ==
    \/ TestServerCall
    \/ ConnectAttempt
    \/ VerifyConnection
    \/ ConnectExhausted
    \/ ConnectV1
    \/ RunStep
    \/ PhasesDone
    \/ CloseSession
    \/ CloseSessionV1
    \/ AppendResult
    \/ GenerateReport
    \/ CliExit

Spec == Init /\ [][Next]_vars

(***************************************************************************)
(* executeTest called on its own: any name, any function, any timeout the  *)
(* constructor accepts.                                                    *)
(***************************************************************************)
TimeoutOptions == {0, EdgeCaseTimeout, ConnectionTestTimeout, DefaultTimeout}

ExecNames == {"List Tools", "Slow test", "Custom Test 1"}

InitExec ==
    /\ impl = "v2"
    /\ options \in {Constructor(0, t) : t \in TimeoutOptions}
    /\ pc = "exec"
    /\ exec \in {[NoExec EXCEPT !.name = n, !.fn = f, !.tie = w] :
                   n \in ExecNames,
                   f \in AnyBehaviours(SettleTimes(options.timeout)),
                   w \in {"fn", "timer"}}
    /\ call = NoCall
    /\ Idle

ExecuteTestCall ==
    /\ pc = "exec" /\ ~exec.done
    /\ metrics' = [metrics EXCEPT !.totalTestsRun = @ + 1]
    /\ exec' = [exec EXCEPT !.done = TRUE,
                            !.out = executeTest(exec.name, exec.fn, options.timeout, exec.tie)]
    /\ UNCHANGED << impl, options, results, clients, pc, transportConfig, tests, result,
                    client, connecting, attempt, lastError, idx, report, exitCode,
                    call, faults, planned, entryAttempts, attemptLog, sessions >>

NextExec == ExecuteTestCall

SpecExec == InitExec /\ [][NextExec]_vars

(***************************************************************************)
(* sanitizeConfig.  Header keys are sequences of characters, so that       *)
(* key.toLowerCase().includes(...) is computed on the key itself.          *)
(***************************************************************************)
UpperCase == << "A", "B", "C", "D", "E", "F", "G", "H", "I", "J", "K", "L", "M",
                "N", "O", "P", "Q", "R", "S", "T", "U", "V", "W", "X", "Y", "Z" >>
LowerCase == << "a", "b", "c", "d", "e", "f", "g", "h", "i", "j", "k", "l", "m",
                "n", "o", "p", "q", "r", "s", "t", "u", "v", "w", "x", "y", "z" >>

toLowerCase(str) ==
    [i \in DOMAIN str |->
       IF \E k \in DOMAIN UpperCase : UpperCase[k] = str[i]
       THEN LowerCase[CHOOSE k \in DOMAIN UpperCase : UpperCase[k] = str[i]]
       ELSE str[i]]

includes(str, sub) ==
    \E i \in 0..(Len(str) - Len(sub)) : SubSeq(str, i + 1, i + Len(sub)) = sub

\* 'Authorization', 'X-API-Key', 'X-CSRF-TOKEN', 'Accept'
HeaderKeys ==
    { << "A", "u", "t", "h", "o", "r", "i", "z", "a", "t", "i", "o", "n" >>,
      << "X", "-", "A", "P", "I", "-", "K", "e", "y" >>,
      << "X", "-", "C", "S", "R", "F", "-", "T", "O", "K", "E", "N" >>,
      << "A", "c", "c", "e", "p", "t" >> }

HeaderValues == {"value-1", "value-2"}

\* a descriptor as sanitizeConfig reads it: headers (if any) and auth
\* (Undefined: absent, "": the empty string)
Configs ==
    { [type |-> "sse", url |-> "http://localhost:3000/sse",
       hasHeaders |-> h.has, headers |-> h.map, auth |-> a] :
        h \in { [has |-> FALSE, map |-> << >>] }
                \cup { [has |-> TRUE, map |-> m] :
                         m \in UNION { [K -> HeaderValues] : K \in SUBSET HeaderKeys } },
        a \in {Undefined, ""} \cup HeaderValues }

\* lib/mcp-test-framework-advanced.js (v1): '***' for keys that contain 'auth'
sanitizeConfigV1(config) ==
    [config EXCEPT
       !.headers = [key \in DOMAIN config.headers |->
                      IF includes(toLowerCase(key), << "a", "u", "t", "h" >>)
                      THEN "***" ELSE config.headers[key]],
       !.auth = IF config.auth \notin {Undefined, ""} THEN "***" ELSE config.auth]

\* key.toLowerCase().includes('auth') || ...includes('token') || ...includes('key')
SecretKey(key) ==
    \/ includes(toLowerCase(key), << "a", "u", "t", "h" >>)
    \/ includes(toLowerCase(key), << "t", "o", "k", "e", "n" >>)
    \/ includes(toLowerCase(key), << "k", "e", "y" >>)

\* lib/mcp-test-framework-advanced-v2.js: '[REDACTED]' for keys that contain
\* 'auth', 'token' or 'key', and for a truthy auth
sanitizeConfig(config) ==
    [config EXCEPT
       !.headers = [key \in DOMAIN config.headers |->
                      IF SecretKey(key) THEN "[REDACTED]" ELSE config.headers[key]],
       !.auth = IF config.auth \notin {Undefined, ""} THEN "[REDACTED]" ELSE config.auth]

OtherValue(v) == IF v = "value-1" THEN "value-2" ELSE IF v = "value-2" THEN "value-1" ELSE v

InitSanitize ==
    /\ impl \in {"v1", "v2"}
    /\ options = Constructor(0, 0)
    /\ pc = "sanitize"
    /\ exec = NoExec
    /\ call \in { [method |-> "sanitizeConfig", done |-> FALSE, config |-> c, config2 |-> c,
                   out |-> c, out2 |-> c] : c \in Configs }
    /\ Idle

\* result.config = this.sanitizeConfig(transportConfig), for a descriptor and
\* for the one that differs from it in the values of the headers whose key
\* contains 'auth', 'token' or 'key' and in auth
SanitizeCall ==
    /\ pc = "sanitize" /\ ~call.done
    /\ LET other == [call.config EXCEPT
                       !.headers = [key \in DOMAIN call.config.headers |->
                                      IF SecretKey(key)
                                      THEN OtherValue(call.config.headers[key])
                                      ELSE call.config.headers[key]],
                       !.auth = OtherValue(call.config.auth)]
       IN call' = [call EXCEPT
                     !.done = TRUE,
                     !.config2 = other,
                     !.out = IF impl = "v2" THEN sanitizeConfig(call.config)
                             ELSE sanitizeConfigV1(call.config),
                     !.out2 = IF impl = "v2" THEN sanitizeConfig(other)
                              ELSE sanitizeConfigV1(other)]
    /\ UNCHANGED << impl, options, metrics, results, clients, pc, transportConfig, tests,
                    result, client, connecting, attempt, lastError, idx, report, exitCode,
                    exec, faults, planned, entryAttempts, attemptLog, sessions >>

NextSanitize == SanitizeCall

SpecSanitize == InitSanitize /\ [][NextSanitize]_vars

(***************************************************************************)
(* validateAgainstSchema.  A schema has an optional `required` list and an *)
(* optional `properties` object, whose entries are kept in insertion       *)
(* order; a property has a type, an optional enum, an optional description *)
(* and, for objects, a nested schema.  Arguments are a map from field      *)
(* names to values, or are not given at all (toolTest.arguments absent).   *)
(***************************************************************************)
Property(name, type, hasEnum, enum, description, nested) ==
    [name |-> name, type |-> type, hasEnum |-> hasEnum, enum |-> enum,
     description |-> description, nested |-> nested]

Schema(hasRequired, required, hasProperties, properties) ==
    [hasRequired |-> hasRequired, required |-> required,
     hasProperties |-> hasProperties, properties |-> properties]

\* unnamed/part_006: required field 'output' with an enum
ServerListSchema ==
    Schema(TRUE, << "output" >>, TRUE,
           << Property("output", "string", TRUE, << "json", "yaml" >>, "", "none") >>)
\* test-mcp-server.js style: two required numbers
AddSchema ==
    Schema(TRUE, << "a", "b" >>, TRUE,
           << Property("a", "number", FALSE, << >>, "First number", "none"),
              Property("b", "number", FALSE, << >>, "", "none") >>)
\* an optional enum, a required field that no property declares, and an
\* object property with a nested schema of its own
DeploySchema ==
    Schema(TRUE, << "id" >>, TRUE,
           << Property("mode", "string", TRUE, << "fast", "safe" >>, "", "none"),
              Property("config", "object", FALSE, << >>, "", "requires level in [low, high]") >>)
\* no required list, no properties
OpenSchema == Schema(FALSE, << >>, FALSE, << >>)

Schemas == {ServerListSchema, AddSchema, DeploySchema, OpenSchema}

SchemaFields(schema) ==
    {schema.required[i] : i \in DOMAIN schema.required}
      \cup {schema.properties[i].name : i \in DOMAIN schema.properties}

\* values callers supply: an enum literal, a value outside every enum, and
\* an object that violates the nested schema
ArgumentValues == {"json", "fast", "table", "{level: none}"}

Arguments(given, map) == [given |-> given, map |-> map]

ArgumentsFor(schema) ==
    { Arguments(FALSE, << >>) }
      \cup { Arguments(TRUE, m) :
               m \in UNION { [F -> ArgumentValues] : F \in SUBSET SchemaFields(schema) } }

Range(seq) == {seq[i] : i \in DOMAIN seq}

\* enum.map(v => `"${v}"`).join(', ')
QuotedList(enum) ==
    LET RECURSIVE Join(_)
        Join(i) == IF i = 0 THEN ""
                   ELSE IF i = 1 THEN "\"" \o enum[1] \o "\""
                   ELSE Join(i - 1) \o ", " \o "\"" \o enum[i] \o "\""
    IN Join(Len(enum))

\* schema.properties[field]
HasProperty(schema, field) ==
    schema.hasProperties /\ \E i \in DOMAIN schema.properties : schema.properties[i].name = field

PropertyOf(schema, field) ==
    schema.properties[CHOOSE i \in DOMAIN schema.properties : schema.properties[i].name = field]

\* the suggestion pushed for a missing required field that has a property
AddSuggestion(field, prop) ==
    "Add \"" \o field \o "\": "
      \o (IF prop.hasEnum THEN "one of [" \o QuotedList(prop.enum) \o "]"
          ELSE IF prop.type = "string" THEN "\"your-value\""
          ELSE IF prop.type = "number" THEN "123"
          ELSE IF prop.type = "boolean" THEN "true"
          ELSE "<" \o prop.type \o ">")
      \o (IF prop.description # "" THEN " // " \o prop.description ELSE "")

NoValidation == [threw |-> FALSE, valid |-> TRUE, errors |-> << >>, suggestions |-> << >>]

\* a validator that checks the required fields only
validateRequiredOnly(data, schema) ==
    LET RECURSIVE Required(_)
        Required(i) ==
          IF i = 0 THEN NoValidation
          ELSE LET acc == Required(i - 1)
                   field == schema.required[i]
               IN IF field \in DOMAIN data.map THEN acc
                  ELSE [acc EXCEPT !.errors = Append(@, "Missing required field: " \o field)]
        out == Required(Len(schema.required))
    IN [out EXCEPT !.valid = (Len(out.errors) = 0)]

\* validateAgainstSchema(data, schema): `field in data` throws a TypeError
\* when data is undefined
validateAgainstSchema(data, schema) ==
    LET RECURSIVE Required(_)
        Required(i) ==
          IF i = 0 THEN NoValidation
          ELSE LET acc == Required(i - 1)
                   field == schema.required[i]
               IN IF field \in DOMAIN data.map THEN acc
                  ELSE [acc EXCEPT
                          !.errors = Append(@, "Missing required field: " \o field),
                          !.suggestions =
                             IF HasProperty(schema, field)
                             THEN Append(@, AddSuggestion(field, PropertyOf(schema, field)))
                             ELSE @]
        RECURSIVE Enums(_)
        Enums(i) ==
          IF i = 0 THEN Required(IF schema.hasRequired THEN Len(schema.required) ELSE 0)
          ELSE LET acc == Enums(i - 1)
                   prop == schema.properties[i]
               IN IF prop.name \in DOMAIN data.map /\ prop.hasEnum
                     /\ data.map[prop.name] \notin Range(prop.enum)
                  THEN [acc EXCEPT
                          !.errors = Append(@, "Invalid value for " \o prop.name \o ": \""
                                                 \o data.map[prop.name] \o "\""),
                          !.suggestions = Append(@, "Use one of: " \o QuotedList(prop.enum))]
                  ELSE acc
        out == Enums(IF schema.hasProperties THEN Len(schema.properties) ELSE 0)
    IN IF ~data.given
          /\ (\/ (schema.hasRequired /\ Len(schema.required) > 0)
              \/ (schema.hasProperties /\ Len(schema.properties) > 0))
       THEN [NoValidation EXCEPT !.threw = TRUE, !.valid = FALSE]
       ELSE [out EXCEPT !.valid = (Len(out.errors) = 0)]

InitValidate ==
    /\ impl = "v2"
    /\ options = Constructor(0, 0)
    /\ pc = "validate"
    /\ exec = NoExec
    /\ call \in { [method |-> "validateAgainstSchema", done |-> FALSE,
                   data |-> d, schema |-> s, out |-> NoValidation] :
                    s \in Schemas, d \in UNION { ArgumentsFor(t) : t \in Schemas } }
    /\ call.data \in ArgumentsFor(call.schema)
    /\ Idle

ValidateCall ==
    /\ pc = "validate" /\ ~call.done
    /\ call' = [call EXCEPT !.done = TRUE,
                            !.out = validateAgainstSchema(call.data, call.schema)]
    /\ UNCHANGED << impl, options, metrics, results, clients, pc, transportConfig, tests,
                    result, client, connecting, attempt, lastError, idx, report, exitCode,
                    exec, faults, planned, entryAttempts, attemptLog, sessions >>

NextValidate == ValidateCall

SpecValidate == InitValidate /\ [][NextValidate]_vars

(***************************************************************************)
(* runEnhancedToolTest.  The server's side of one tool test is what its    *)
(* listTools and callTool do; an assertion returns ("ok"), throws an Error *)
(* ("throws") or throws undefined/null ("throwsNullish").                  *)
(***************************************************************************)
\* tool tests per suite
MaxToolTests == 2

Tool(name, hasSchema, inputSchema) ==
    [name |-> name, hasSchema |-> hasSchema, inputSchema |-> inputSchema]

\* tools.tools as the server lists them
ServerTools ==
    << Tool("mittwald_server_list", TRUE, ServerListSchema),
       Tool("add", TRUE, AddSchema),
       Tool("echo", FALSE, OpenSchema) >>

ToolTest(toolName, arguments, assertions) ==
    [toolName |-> toolName, arguments |-> arguments, assertions |-> assertions]

\* unnamed/part_006 (missing field, invalid enum value), test-improvements.js
\* (non_existent_tool), and tests that reach callTool and the assertions
ToolTests ==
    { ToolTest("mittwald_server_list", Arguments(TRUE, << >>), << "ok" >>),
      ToolTest("mittwald_server_list", Arguments(TRUE, [f \in {"output"} |-> "table"]), << "ok" >>),
      ToolTest("mittwald_server_list", Arguments(TRUE, [f \in {"output"} |-> "json"]),
               << "ok", "throws" >>),
      ToolTest("non_existent_tool", Arguments(TRUE, << >>), << >>),
      ToolTest("add", Arguments(FALSE, << >>), << "throwsNullish" >>),
      ToolTest("echo", Arguments(TRUE, << >>), << "ok", "ok" >>) }

ListOutcomes == {"lists", "rejects"}
CallOutcomes == {"content", "null", "noContent", "rejects", "rejectsNullish", "never"}

\* seq.join(sep)
JoinWith(seq, sep) ==
    LET RECURSIVE Join(_)
        Join(i) == IF i = 0 THEN ""
                   ELSE IF i = 1 THEN seq[1]
                   ELSE Join(i - 1) \o sep \o seq[i]
    IN Join(Len(seq))

TypeErrorIn == PlainError("Cannot use 'in' operator to search for a key in undefined")

ToolOutcome(fn, events, assertions) ==
    [fn |-> fn, events |-> events, assertions |-> assertions]

\* an assertions loop that reports the index of the failed assertion from 1
RunAssertionsFromOne(toolTest) ==
    LET RECURSIVE From(_)
        From(i) ==
          IF i > Len(toolTest.assertions)
          THEN ToolOutcome(Behaviour("returns", 0, NullishValue), << >>, 0)
          ELSE IF toolTest.assertions[i] = "ok"
          THEN LET rest == From(i + 1)
               IN ToolOutcome(rest.fn, << "assertion" >> \o rest.events, rest.assertions + 1)
          ELSE ToolOutcome(
                 Behaviour("rejects", 0,
                   IF toolTest.assertions[i] = "throwsNullish"
                   THEN TypeErrorReadingMessage
                   ELSE MCPTestError("Assertion " \o ToString(i) \o " failed: assertion failed",
                                     "ASSERTION_FAILED",
                                     [assertionIndex |-> i, tool |-> toolTest.toolName])),
                 << "assertion" >>, 1)
    IN From(1)

\* the assertions loop: events and the error of the first assertion that throws
RunAssertions(toolTest) ==
    LET RECURSIVE From(_)
        From(i) ==
          IF i > Len(toolTest.assertions)
          THEN ToolOutcome(Behaviour("returns", 0, NullishValue), << >>, 0)
          ELSE IF toolTest.assertions[i] = "ok"
          THEN LET rest == From(i + 1)
               IN ToolOutcome(rest.fn, << "assertion" >> \o rest.events, rest.assertions + 1)
          ELSE ToolOutcome(
                 Behaviour("rejects", 0,
                   IF toolTest.assertions[i] = "throwsNullish"
                   THEN TypeErrorReadingMessage
                   ELSE MCPTestError("Assertion " \o ToString(i) \o " failed: assertion failed",
                                     "ASSERTION_FAILED",
                                     [assertionIndex |-> i - 1, tool |-> toolTest.toolName])),
                 << "assertion" >>, 1)
    IN From(1)

\* a tool test that calls the tool before it validates the arguments
toolTestCallsFirst(toolTest, validateSchemas, listed, called) ==
    ToolOutcome(Behaviour(IF called = "never" THEN "never" ELSE "rejects", 0,
                          PlainError("request failed")),
                << "listTools", "callTool" >>, 0)

\* the function runEnhancedToolTest hands to executeTest: how it settles,
\* the calls it makes in order, and how often totalAssertions was incremented
toolTestFn(toolTest, validateSchemas, listed, called) ==
    LET names == [i \in DOMAIN ServerTools |-> ServerTools[i].name]
        found == \E i \in DOMAIN ServerTools : ServerTools[i].name = toolTest.toolName
        tool == ServerTools[CHOOSE i \in DOMAIN ServerTools :
                              ServerTools[i].name = toolTest.toolName]
        validates == validateSchemas /\ tool.hasSchema
        validation == validateAgainstSchema(toolTest.arguments, tool.inputSchema)
        before == << "listTools" >> \o (IF validates THEN << "validate" >> ELSE << >>)
        asserted == RunAssertions(toolTest)
        Rejects(error, events) == ToolOutcome(Behaviour("rejects", 0, error), events, 0)
    IN  IF listed = "rejects"
        THEN Rejects(PlainError("request failed"), << "listTools" >>)
        ELSE IF ~found
        THEN Rejects(MCPTestError("Tool \"" \o toolTest.toolName \o "\" not found",
                                  "TOOL_NOT_FOUND", [availableTools |-> names]),
                     << "listTools" >>)
        ELSE IF validates /\ validation.threw
        THEN Rejects(TypeErrorIn, before)
        ELSE IF validates /\ ~validation.valid
        THEN Rejects(MCPTestError(
                       JoinWith(<< "Invalid tool arguments:" >> \o validation.errors
                                  \o << "", "Suggestions:" >> \o validation.suggestions,
                                "\n  "),
                       "SCHEMA_VALIDATION_FAILED",
                       [errors |-> validation.errors, suggestions |-> validation.suggestions]),
                     before)
        ELSE IF called = "never"
        THEN ToolOutcome(Behaviour("never", 0, NullishValue), before \o << "callTool" >>, 0)
        ELSE IF called = "rejects"
        THEN Rejects(MCPTestError("Tool execution failed: request failed",
                                  "TOOL_EXECUTION_FAILED",
                                  [tool |-> toolTest.toolName,
                                   arguments |-> toolTest.arguments,
                                   error |-> "request failed"]),
                     before \o << "callTool" >>)
        ELSE IF called = "rejectsNullish"
        THEN Rejects(TypeErrorReadingMessage, before \o << "callTool" >>)
        ELSE IF called \in {"null", "noContent"}
        THEN Rejects(MCPTestError("Invalid tool response structure", "INVALID_RESPONSE",
                                  [response |-> called]),
                     before \o << "callTool" >>)
        ELSE ToolOutcome(asserted.fn, before \o << "callTool" >> \o asserted.events,
                         asserted.assertions)

ToolTestLists ==
    UNION { [1..n -> ToolTests] : n \in 1..MaxToolTests }

InitTool ==
    /\ impl = "v2"
    /\ options = Constructor(0, 0)
    /\ pc = "tools"
    /\ exec = NoExec
    /\ call \in { [method |-> "runEnhancedToolTest", done |-> FALSE,
                   toolTests |-> ts, validateSchemas |-> v, log |-> << >>] :
                    ts \in ToolTestLists, v \in BOOLEAN }
    /\ Idle

\* testServer: for (const toolTest of tests.toolTests)
\*   await this.runEnhancedToolTest(client, toolTest, result)
RunToolTest ==
    /\ pc = "tools" /\ ~call.done /\ Len(result.tests) < Len(call.toolTests)
    /\ LET toolTest == call.toolTests[Len(result.tests) + 1] IN
       \E listed \in ListOutcomes, called \in CallOutcomes :
         LET ran == toolTestFn(toolTest, call.validateSchemas, listed, called)
             out == executeTest("Tool Test: " \o toolTest.toolName, ran.fn,
                                options.timeout, "timer")
             invoked == \E i \in DOMAIN ran.events : ran.events[i] = "callTool"
         IN /\ invoked \/ called = "content"
            /\ metrics' = [metrics EXCEPT !.totalTestsRun = @ + 1,
                                          !.totalAssertions = @ + ran.assertions]
            /\ result' = [result EXCEPT !.tests = Append(@, out.test)]
            /\ call' = [call EXCEPT
                          !.log = Append(@, [listed |-> listed,
                                             called |-> IF invoked THEN called ELSE "unused",
                                             events |-> ran.events,
                                             assertions |-> ran.assertions])]
    /\ UNCHANGED << impl, options, results, clients, pc, transportConfig, tests, client,
                    connecting, attempt, lastError, idx, report, exitCode, exec, faults,
                    planned, entryAttempts, attemptLog, sessions >>

\* testServer: result.status = 'passed' after the loop
ToolTestsDone ==
    /\ pc = "tools" /\ ~call.done /\ Len(result.tests) = Len(call.toolTests)
    /\ result' = Finalized([result EXCEPT !.status = "passed"])
    /\ call' = [call EXCEPT !.done = TRUE]
    /\ UNCHANGED << impl, options, metrics, results, clients, pc, transportConfig, tests,
                    client, connecting, attempt, lastError, idx, report, exitCode, exec,
                    faults, planned, entryAttempts, attemptLog, sessions >>

NextTool == RunToolTest \/ ToolTestsDone

SpecTool == InitTool /\ [][NextTool]_vars

(***************************************************************************)
(* The built-in tests of the Discovery, Stability and Compliance phases.   *)
(* A reply says how one call on the client settles: it fulfils (val: the   *)
(* number of entries listed, or the shape of the response), rejects (val:  *)
(* the client's error) or stays pending.  Messages are sequences of        *)
(* characters, so that includes() is a substring search.                   *)
(***************************************************************************)
MethodNotFoundMessage ==
    << "M", "C", "P", " ", "e", "r", "r", "o", "r", " ", "-", "3", "2", "6", "0", "1",
       ":", " ", "M", "e", "t", "h", "o", "d", " ", "n", "o", "t", " ", "f", "o", "u",
       "n", "d" >>

LowerCaseMessage ==
    << "r", "e", "s", "o", "u", "r", "c", "e", "s", "/", "l", "i", "s", "t", ":", " ",
       "m", "e", "t", "h", "o", "d", " ", "n", "o", "t", " ", "f", "o", "u", "n", "d" >>

ConnectionClosedMessage ==
    << "M", "C", "P", " ", "e", "r", "r", "o", "r", " ", "-", "3", "2", "0", "0", "0",
       ":", " ", "C", "o", "n", "n", "e", "c", "t", "i", "o", "n", " ", "c", "l", "o",
       "s", "e", "d" >>

MethodNotFound ==
    << "M", "e", "t", "h", "o", "d", " ", "n", "o", "t", " ", "f", "o", "u", "n", "d" >>

\* requests of 'Concurrent Requests' (v2, v1)
ConcurrentRequests == 10
ConcurrentRequestsV1 == 5

\* the Error the client rejects a request with
ClientError(message, code) ==
    [type |-> "Error", message |-> message, code |-> code, details |-> NoDetails]

ClientErrors ==
    { ClientError(MethodNotFoundMessage, -32601), ClientError(LowerCaseMessage, -32601),
      ClientError(ConnectionClosedMessage, -32000) }

ListReplies ==
    { Behaviour("returns", 0, n) : n \in {0, 2} }
      \cup { Behaviour("rejects", 0, e) : e \in ClientErrors }
      \cup { Behaviour("never", 0, NullishValue) }

\* a run of sequential calls: all fulfil, or the first that does not
\* fulfil rejects or stays pending
SequentialReplies ==
    { Behaviour("returns", 0, 2), Behaviour("never", 0, NullishValue) }
      \cup { Behaviour("rejects", 0, e) : e \in ClientErrors }

\* listTools answering with or without a tools array
ShapeReplies ==
    { Behaviour("returns", 0, s) : s \in {"array", "notArray"} }
      \cup { Behaviour("rejects", 0, ClientError(ConnectionClosedMessage, -32000)),
             Behaviour("never", 0, NullishValue) }

\* callTool({ name: '__invalid_tool__' }): the server answers all the same,
\* rejects with an Error or with undefined, or does not answer
UnknownToolReplies ==
    { Behaviour("returns", 0, "content"),
      Behaviour("rejects", 0, ClientError(MethodNotFoundMessage, -32601)),
      Behaviour("rejects", 0, NullishValue),
      Behaviour("never", 0, NullishValue) }

\* how K calls in flight together settle
Settled(fulfilled, rejected, pending) ==
    [fulfilled |-> fulfilled, rejected |-> rejected, pending |-> pending]

ConcurrentReplies(requests) ==
    { Settled(requests - x[1] - x[2], x[1], x[2]) :
        x \in { y \in (0..requests) \X (0..requests) : y[1] + y[2] <= requests } }

\* 'List Tools' (both versions), 'List Resources' and 'List Prompts' (v2):
\* the awaited call's rejection leaves the function
listFn(reply) ==
    IF reply.kind = "returns"
    THEN Behaviour("returns", reply.at, [count |-> reply.val])
    ELSE reply

\* 'List Resources' and 'List Prompts' (v1): catch (error), and a message
\* that includes 'Method not found' becomes a zero count
listFnV1(reply) ==
    IF reply.kind = "rejects" /\ includes(reply.val.message, MethodNotFound)
    THEN Behaviour("returns", reply.at, [count |-> 0, note |-> "not supported"])
    ELSE listFn(reply)

DiscoveryFn(version, name, reply) ==
    IF version = "v1" /\ name # "List Tools" THEN listFnV1(reply) ELSE listFn(reply)

\* 'Rapid Sequential Requests' and 'Memory Stability': a loop of awaited calls
sequentialFn(requests, reply) ==
    IF reply.kind = "returns"
    THEN Behaviour("returns", reply.at, [requests |-> requests])
    ELSE reply

\* 'Concurrent Requests' (v2): Promise.allSettled over the calls
concurrentFn(settled) ==
    IF settled.pending > 0 THEN Behaviour("never", 0, NullishValue)
    ELSE Behaviour("returns", 0,
                   [requests |-> ConcurrentRequests,
                    successful |-> settled.fulfilled,
                    failed |-> settled.rejected])

\* 'Concurrent Requests' (v1): Promise.all rejects with the first rejection
concurrentFnV1(settled) ==
    IF settled.rejected > 0
    THEN Behaviour("rejects", 0, ClientError(ConnectionClosedMessage, -32000))
    ELSE IF settled.pending > 0 THEN Behaviour("never", 0, NullishValue)
    ELSE Behaviour("returns", 0, [requests |-> ConcurrentRequestsV1])

\* 'Valid JSON-RPC responses'
validJsonRpcFn(reply) ==
    IF reply.kind # "returns" THEN reply
    ELSE IF reply.val # "array"
    THEN Behaviour("rejects", reply.at, PlainError("Invalid tools response format"))
    ELSE Behaviour("returns", reply.at, [compliant |-> TRUE])

\* 'Error handling compliance': the throw after the call is inside the try
\* block, so the catch block takes it as it takes the call's rejection
errorHandlingFn(reply) ==
    LET error == IF reply.kind = "returns"
                 THEN PlainError("Server should have returned an error")
                 ELSE reply.val
    IN  IF reply.kind = "never" THEN reply
        ELSE IF error.type = "nullish"
        THEN Behaviour("rejects", reply.at, TypeErrorReadingMessage)
        ELSE Behaviour("returns", reply.at,
                       [compliant |-> TRUE, errorHandled |-> TRUE,
                        errorMessage |-> error.message])

\* the replies a built-in test can meet
RepliesOf(version, name) ==
    CASE name \in {"List Tools", "List Resources", "List Prompts"} -> ListReplies
      [] name \in {"Rapid Sequential Requests", "Memory Stability"} -> SequentialReplies
      [] name = "Concurrent Requests" ->
           ConcurrentReplies(IF version = "v1" THEN ConcurrentRequestsV1
                             ELSE ConcurrentRequests)
      [] name = "Valid JSON-RPC responses" -> ShapeReplies
      [] name = "Error handling compliance" -> UnknownToolReplies

\* the function of a built-in test, run against a reply
BuiltinFn(version, name, reply) ==
    CASE name \in {"List Tools", "List Resources", "List Prompts"} ->
           DiscoveryFn(version, name, reply)
      [] name = "Rapid Sequential Requests" ->
           sequentialFn(IF version = "v1" THEN 10 ELSE 20, reply)
      [] name = "Memory Stability" -> sequentialFn(50, reply)
      [] name = "Concurrent Requests" ->
           IF version = "v1" THEN concurrentFnV1(reply) ELSE concurrentFn(reply)
      [] name = "Valid JSON-RPC responses" -> validJsonRpcFn(reply)
      [] name = "Error handling compliance" -> errorHandlingFn(reply)

\* suites of built-in phases, each phase alone
PhaseSuites ==
    { Suite(TRUE, FALSE, FALSE, FALSE, FALSE, 0, 0, Undefined, 0),
      Suite(FALSE, TRUE, FALSE, FALSE, FALSE, 0, 0, Undefined, 0),
      Suite(FALSE, FALSE, TRUE, FALSE, FALSE, 0, 0, Undefined, 0) }

InitPhases ==
    /\ impl \in {"v1", "v2"}
    /\ options = Constructor(0, 0)
    /\ pc = "phases"
    /\ exec = NoExec
    /\ call \in { [method |-> "testServer", done |-> FALSE, tests |-> t, log |-> << >>] :
                    t \in PhaseSuites }
    /\ Idle

PhasePlan == IF impl = "v2" THEN Plan(call.tests, Undefined) ELSE PlanV1(call.tests, Undefined)

\* one iteration of the loop that ends runDiscoveryTests, runStabilityTests
\* or runProtocolComplianceTests: executeTest, result.tests.push
RunBuiltinTest ==
    /\ pc = "phases" /\ ~call.done /\ Len(result.tests) < Len(PhasePlan)
    /\ LET step == PhasePlan[Len(result.tests) + 1] IN
       /\ \E reply \in RepliesOf(impl, step.name) :
            LET fn == BuiltinFn(impl, step.name, reply)
                out == IF impl = "v2"
                       THEN executeTest(step.name, fn, options.timeout, "timer")
                       ELSE executeTestV1(step.name, fn, options.timeout, "timer")
            IN /\ metrics' = [metrics EXCEPT !.totalTestsRun = @ + 1]
              /\ result' = [result EXCEPT !.tests = Append(@, out.test)]
              /\ call' = [call EXCEPT
                            !.log = Append(@, [name |-> step.name, reply |-> reply,
                                               returned |-> fn.kind = "returns",
                                               data |-> fn.val])]
    /\ UNCHANGED << impl, options, results, clients, pc, transportConfig, tests, client,
                    connecting, attempt, lastError, idx, report, exitCode, exec, faults,
                    planned, entryAttempts, attemptLog, sessions >>

\* testServer: result.status = 'passed' after the phases
PhasesReturn ==
    /\ pc = "phases" /\ ~call.done /\ Len(result.tests) = Len(PhasePlan)
    /\ result' = Finalized([result EXCEPT !.status = "passed"])
    /\ call' = [call EXCEPT !.done = TRUE]
    /\ UNCHANGED << impl, options, metrics, results, clients, pc, transportConfig, tests,
                    client, connecting, attempt, lastError, idx, report, exitCode, exec,
                    faults, planned, entryAttempts, attemptLog, sessions >>

NextPhases == RunBuiltinTest \/ PhasesReturn

SpecPhases == InitPhases /\ [][NextPhases]_vars

(***************************************************************************)
(* A library caller: testServer and generateReport called on one framework *)
(* instance (v2) in any order, the caller keeping the last report.         *)
(***************************************************************************)
InitLibrary ==
    /\ impl = "v2"
    /\ options = Constructor(0, 0)
    /\ pc = "idle"
    /\ exec = NoExec
    /\ call = NoCall
    /\ Idle

\* generateReport: return report; the caller goes on with the instance
ReportReturned ==
    /\ pc = "reported" /\ report.generated
    /\ pc' = "idle"
    /\ UNCHANGED << impl, options, metrics, results, clients, transportConfig, tests,
                    result, client, connecting, attempt, lastError, idx, report, exitCode,
                    exec, call, faults, planned, entryAttempts, attemptLog, sessions >>

NextLibrary ==
    \/ TestServerCall
    \/ ConnectAttempt
    \/ VerifyConnection
    \/ ConnectExhausted
    \/ RunStep
    \/ PhasesDone
    \/ CloseSession
    \/ AppendResult
    \/ GenerateReport
    \/ ReportReturned

SpecLibrary == InitLibrary /\ [][NextLibrary]_vars

(***************************************************************************)
(* verifyTransport (lib/auto-detect-transport.js): for each label in       *)
(* order, client.connect raced against a timer, then client.close inside   *)
(* the same try block; the catch block goes on to the next label.          *)
(***************************************************************************)
VerifyTimeout == 3000

\* the labels detectTransport hands over (it returns 'unknown' otherwise,
\* and the callers do not verify then)
HttpLabels == {"sse", "streamableHttp"}

\* const transports = suspectedTransport === 'sse' ? [...] : [...]
Transports(suspectedTransport) ==
    IF suspectedTransport = "sse" THEN << "sse", "streamableHttp" >>
    ELSE << "streamableHttp", "sse" >>

\* how client.connect(transport) settles
ConnectBehaviours ==
    { Behaviour(k, t, PlainError("connect failed")) :
        k \in {"returns", "rejects"}, t \in SettleTimes(VerifyTimeout) }
      \cup { Behaviour("never", 0, NullishValue) }

\* how client.close() settles
CloseOutcomes == {"fulfils", "rejects", "pending"}

Verified(transportType) ==
    [transport |-> transportType, confidence |-> 100,
     reason |-> "Successfully connected and verified"]

\* no object: what `value` holds until an object is returned
NoVerdict == [transport |-> Undefined, confidence |-> 0, reason |-> Undefined]

InitVerify ==
    /\ impl = "v2"
    /\ options = Constructor(0, 0)
    /\ pc = "verifyTransport"
    /\ exec = NoExec
    /\ call \in { [method |-> "verifyTransport", done |-> FALSE, suspected |-> s,
                   i |-> 1, stage |-> "loop", log |-> << >>, open |-> {},
                   returns |-> "nothing yet", value |-> NoVerdict] : s \in HttpLabels }
    /\ Idle

\* the try block up to the await of Promise.race([client.connect(transport),
\* timeoutPromise]); a client whose connect is pending at the timeout, or
\* fulfils after it, stays connected
VerifyConnect ==
    /\ pc = "verifyTransport" /\ ~call.done /\ call.stage = "loop"
    /\ call.i <= Len(Transports(call.suspected))
    /\ LET transportType == Transports(call.suspected)[call.i] IN
       \E fn \in ConnectBehaviours, tie \in {"fn", "timer"} :
         LET timedOut == TimerWins(fn, VerifyTimeout, tie)
             won == ~timedOut /\ fn.kind = "returns"
             entry == [transport |-> transportType, fn |-> fn,
                       connect |-> IF won THEN "won"
                                   ELSE IF timedOut THEN "timeout" ELSE "failed",
                       close |-> "not called"]
         IN /\ fn.at = VerifyTimeout \/ tie = "fn"
            /\ call' = [call EXCEPT
                          !.log = Append(@, entry),
                          !.open = IF fn.kind = "returns" THEN @ \cup {transportType} ELSE @,
                          !.stage = IF won THEN "close" ELSE "loop",
                          !.i = IF won THEN @ ELSE @ + 1]
    /\ UNCHANGED << impl, options, metrics, results, clients, pc, transportConfig, tests,
                    result, client, connecting, attempt, lastError, idx, report, exitCode,
                    exec, faults, planned, entryAttempts, attemptLog, sessions >>

\* await client.close() and the return; a rejecting close lands in the
\* catch block, which tries the next label
VerifyClose ==
    /\ pc = "verifyTransport" /\ ~call.done /\ call.stage = "close"
    /\ LET transportType == Transports(call.suspected)[call.i] IN
       \E closed \in CloseOutcomes :
         call' = [call EXCEPT
                    !.log[call.i].close = closed,
                    !.open = IF closed = "pending" THEN @ ELSE @ \ {transportType},
                    !.stage = CASE closed = "fulfils" -> "returned"
                                [] closed = "rejects" -> "loop"
                                [] OTHER -> "pending",
                    !.i = IF closed = "rejects" THEN @ + 1 ELSE @,
                    !.returns = IF closed = "fulfils" THEN "object" ELSE @,
                    !.value = IF closed = "fulfils" THEN Verified(transportType) ELSE @,
                    !.done = closed = "fulfils"]
    /\ UNCHANGED << impl, options, metrics, results, clients, pc, transportConfig, tests,
                    result, client, connecting, attempt, lastError, idx, report, exitCode,
                    exec, faults, planned, entryAttempts, attemptLog, sessions >>

\* return null after the loop
VerifyReturnNull ==
    /\ pc = "verifyTransport" /\ ~call.done /\ call.stage = "loop"
    /\ call.i > Len(Transports(call.suspected))
    /\ call' = [call EXCEPT !.stage = "returned", !.returns = "null", !.done = TRUE]
    /\ UNCHANGED << impl, options, metrics, results, clients, pc, transportConfig, tests,
                    result, client, connecting, attempt, lastError, idx, report, exitCode,
                    exec, faults, planned, entryAttempts, attemptLog, sessions >>

NextVerify == VerifyConnect \/ VerifyClose \/ VerifyReturnNull

SpecVerify == InitVerify /\ [][NextVerify]_vars

(***************************************************************************)
(* detectTransport (lib/auto-detect-transport.js): one GET request, the    *)
(* response classified in res.on('end') from statusCode, the               *)
(* x-mcp-transport and content-type headers and the body collected.        *)
(* Header values and bodies are sequences of characters.                   *)
(***************************************************************************)
\* if (body.length > 1024) req.destroy()
BodyCap == 1024

TextEventStream ==
    << "t", "e", "x", "t", "/", "e", "v", "e", "n", "t", "-", "s", "t", "r", "e", "a",
       "m" >>

NotAcceptable ==
    << "N", "o", "t", " ", "A", "c", "c", "e", "p", "t", "a", "b", "l", "e" >>

EventStream ==
    << "e", "v", "e", "n", "t", "-", "s", "t", "r", "e", "a", "m" >>

JsonRpc ==
    << "j", "s", "o", "n", "r", "p", "c" >>

ErrorWord ==
    << "e", "r", "r", "o", "r" >>

\* JSON.parse(body): throws, or gives an object with or without
\* error.message
NotJson == [valid |-> FALSE, hasErrorMessage |-> FALSE, message |-> << >>]
Json(hasErrorMessage, message) ==
    [valid |-> TRUE, hasErrorMessage |-> hasErrorMessage, message |-> message]

Body(text, parsed) == [text |-> text, parsed |-> parsed]

Bodies ==
    {
      \* empty body
      Body(
           << >>,
           NotJson),
      \* the JSON-RPC error of a StreamableHTTP server
      Body(
           << "{", "\"", "j", "s", "o", "n", "r", "p", "c", "\"", ":", "\"", "2", ".",
              "0", "\"", ",", "\"", "e", "r", "r", "o", "r", "\"", ":", "{", "\"", "m",
              "e", "s", "s", "a", "g", "e", "\"", ":", "\"", "N", "o", "t", " ", "A",
              "c", "c", "e", "p", "t", "a", "b", "l", "e", ":", " ", "C", "l", "i",
              "e", "n", "t", " ", "m", "u", "s", "t", " ", "a", "c", "c", "e", "p",
              "t", " ", "t", "e", "x", "t", "/", "e", "v", "e", "n", "t", "-", "s",
              "t", "r", "e", "a", "m", "\"", "}", "}" >>,
           Json(TRUE,
             << "N", "o", "t", " ", "A", "c", "c", "e", "p", "t", "a", "b", "l", "e",
                ":", " ", "C", "l", "i", "e", "n", "t", " ", "m", "u", "s", "t", " ",
                "a", "c", "c", "e", "p", "t", " ", "t", "e", "x", "t", "/", "e", "v",
                "e", "n", "t", "-", "s", "t", "r", "e", "a", "m" >>)),
      \* plain text
      Body(
           << "A", "c", "c", "e", "p", "t", ":", " ", "t", "e", "x", "t", "/", "e",
              "v", "e", "n", "t", "-", "s", "t", "r", "e", "a", "m" >>,
           NotJson),
      \* plain text
      Body(
           << "N", "o", "t", " ", "A", "c", "c", "e", "p", "t", "a", "b", "l", "e" >>,
           NotJson),
      \* a JSON-RPC error
      Body(
           << "{", "\"", "j", "s", "o", "n", "r", "p", "c", "\"", ":", "\"", "2", ".",
              "0", "\"", ",", "\"", "e", "r", "r", "o", "r", "\"", ":", "{", "\"", "m",
              "e", "s", "s", "a", "g", "e", "\"", ":", "\"", "m", "u", "s", "t", " ",
              "a", "c", "c", "e", "p", "t", " ", "e", "v", "e", "n", "t", "-", "s",
              "t", "r", "e", "a", "m", "\"", "}", "}" >>,
           Json(TRUE,
             << "m", "u", "s", "t", " ", "a", "c", "c", "e", "p", "t", " ", "e", "v",
                "e", "n", "t", "-", "s", "t", "r", "e", "a", "m" >>)),
      \* a JSON-RPC error
      Body(
           << "{", "\"", "j", "s", "o", "n", "r", "p", "c", "\"", ":", "\"", "2", ".",
              "0", "\"", ",", "\"", "e", "r", "r", "o", "r", "\"", ":", "{", "\"", "m",
              "e", "s", "s", "a", "g", "e", "\"", ":", "\"", "B", "a", "d", " ", "R",
              "e", "q", "u", "e", "s", "t", "\"", "}", "}" >>,
           Json(TRUE,
             << "B", "a", "d", " ", "R", "e", "q", "u", "e", "s", "t" >>)),
      \* not JSON
      Body(
           << "j", "s", "o", "n", "r", "p", "c", " ", "e", "r", "r", "o", "r", ":",
              " ", "e", "v", "e", "n", "t", "-", "s", "t", "r", "e", "a", "m" >>,
           NotJson),
      \* JSON without error.message
      Body(
           << "{", "\"", "j", "s", "o", "n", "r", "p", "c", "\"", ":", "\"", "2", ".",
              "0", "\"", ",", "\"", "r", "e", "s", "u", "l", "t", "\"", ":", "{", "\"",
              "e", "r", "r", "o", "r", "\"", ":", "\"", "e", "v", "e", "n", "t", "-",
              "s", "t", "r", "e", "a", "m", "\"", "}", "}" >>,
           Json(FALSE, << >>)),
      \* not JSON
      Body(
           << "<", "h", "t", "m", "l", ">", "O", "K", "<", "/", "h", "t", "m", "l",
              ">" >>,
           NotJson)
    }

\* headers['x-mcp-transport']
TransportHeaders == {Undefined, "sse", "streamablehttp", "streamable-http"}

\* headers['content-type'] || ''
ContentTypes == { << >>, TextEventStream }

StatusCodes == {200, 404, 406}

\* length: what body.length comes to, the text and what follows it
Response(statusCode, header, contentType, body, length) ==
    [statusCode |-> statusCode, header |-> header, contentType |-> contentType,
     body |-> body, length |-> length]

\* responses within the cap, and responses of 2 KB
Responses ==
    { Response(s, h, c, b, Len(b.text)) :
        s \in StatusCodes, h \in TransportHeaders, c \in ContentTypes, b \in Bodies }
      \cup { Response(s, h, << >>, b, 2 * BodyCap) :
               s \in StatusCodes, h \in TransportHeaders,
               b \in { x \in Bodies : includes(x.text, TextEventStream) } }

NoResponse == Response(0, Undefined, << >>, Body(<< >>, NotJson), 0)

DetectionResult(transport, confidence, reason) ==
    [transport |-> transport, confidence |-> confidence, reason |-> reason]

\* a classification that takes every event-stream indication for SSE
classifyIgnoresStatus(res) ==
    IF \/ res.header = "sse"
       \/ includes(res.body.text, TextEventStream)
       \/ includes(res.contentType, TextEventStream)
    THEN DetectionResult("sse", 80, "Server indicates SSE support")
    ELSE DetectionResult("streamableHttp", 50, "HTTP endpoint, assuming StreamableHTTP")

\* res.on('end'): the chain of checks, the first that matches resolves
classify(res) ==
    LET body == res.body.text IN
    IF \/ res.header = "sse"
       \/ includes(body, TextEventStream)
       \/ includes(res.contentType, TextEventStream)
    THEN IF res.statusCode = 406 \/ includes(body, NotAcceptable)
         THEN DetectionResult("streamableHttp", 90,
                "Server requires event-stream but responds with 406, typical of StreamableHTTP")
         ELSE DetectionResult("sse", 80, "Server indicates SSE support")
    ELSE IF \/ res.header = "streamablehttp"
            \/ res.header = "streamable-http"
            \/ (res.statusCode = 406 /\ includes(body, EventStream))
    THEN DetectionResult("streamableHttp", 95, "Server shows StreamableHTTP characteristics")
    ELSE IF /\ includes(body, JsonRpc) /\ includes(body, ErrorWord)
            /\ res.body.parsed.valid /\ res.body.parsed.hasErrorMessage
            /\ includes(res.body.parsed.message, EventStream)
    THEN DetectionResult("streamableHttp", 85, "JSON-RPC error mentions event-stream")
    ELSE DetectionResult("streamableHttp", 50, "HTTP endpoint, assuming StreamableHTTP")

\* new URL(url) and the choice of http or https: protocol is undefined for
\* a string new URL() does not accept
Url(href, protocol) == [href |-> href, protocol |-> protocol]

Urls ==
    { Url("https://mcp.example.com/mcp", "https:"),
      Url("ftp://mcp.example.com/mcp", "ftp:"),
      Url("not a url", Undefined) }

\* what happens to the request: 'end' is emitted on the response, 'error'
\* on the response or on the request, nothing arrives for 5000 ms, or the
\* data handler destroyed the request and nothing more is emitted
NetworkOutcomes == {"end", "res error", "req error", "timeout", "destroyed"}

Probe(outcome, res) == [outcome |-> outcome, res |-> res]

\* a body longer than BodyCap makes the data handler call req.destroy();
\* the runtime then still emits 'end', or 'error' on the response, or
\* nothing: the promise stays pending
Probes ==
    { Probe("end", r) : r \in Responses }
      \cup { Probe(o, r) : o \in {"res error", "destroyed"},
                           r \in { x \in Responses : x.length > BodyCap } }
      \cup { Probe(o, NoResponse) : o \in {"res error", "req error", "timeout"} }

NoProbe == Probe("none", NoResponse)

Settlement(state, value) == [state |-> state, value |-> value]

NoDetection == DetectionResult(Undefined, 0, Undefined)

\* new URL(url) throws for a malformed string and client.request throws for
\* a protocol that is not the client's, both before any handler is set: the
\* promise rejects and no request is made
UrlAccepted(url) == url.protocol \in {"http:", "https:"}

\* detectTransport(url) against what happens to its request
detectTransport(url, probe) ==
    IF ~UrlAccepted(url) THEN Settlement("rejected", NoDetection)
    ELSE CASE probe.outcome = "end" ->
                Settlement("resolved", classify(probe.res))
           [] probe.outcome = "destroyed" ->
                Settlement("pending", NoDetection)
           [] probe.outcome = "res error" ->
                Settlement("resolved",
                           DetectionResult("unknown", 0, "Failed to connect to server"))
           [] probe.outcome = "req error" ->
                Settlement("resolved",
                           DetectionResult("unknown", 0, "Connection error: ECONNREFUSED"))
           [] probe.outcome = "timeout" ->
                Settlement("resolved", DetectionResult("unknown", 0, "Connection timeout"))

(***************************************************************************)
(* The CLI's auto mode (main of lib/mcp-test-framework-advanced-v2.js):    *)
(* detectTransport, verifyTransport, then the suite on the verified label. *)
(***************************************************************************)
InitAuto ==
    /\ impl = "v2"
    /\ options = Constructor(0, 0)
    /\ pc = "auto"
    /\ exec = NoExec
    /\ call \in { [method |-> "main", done |-> FALSE, url |-> u,
                   probe |-> NoProbe,
                   detection |-> Settlement("pending", NoDetection),
                   suspected |-> Undefined, i |-> 1, stage |-> "loop", log |-> << >>,
                   open |-> {}, returns |-> "nothing yet", value |-> NoVerdict] :
                    u \in Urls }
    /\ Idle

\* main: const detected = await detectTransport(args[1]); exit(1) on
\* 'unknown'.  The branch is outside main's try block: a rejection ends the
\* process as the runtime ends it on an unhandled rejection (status 1, or a
\* warning and status 0), and a promise that never settles lets the process
\* run out of work with status 0.
AutoDetect ==
    /\ pc = "auto"
    /\ \E probe \in IF UrlAccepted(call.url) THEN Probes ELSE {NoProbe} :
         LET d == detectTransport(call.url, probe) IN
         /\ call' = [call EXCEPT !.probe = probe, !.detection = d,
                                 !.suspected = d.value.transport]
         /\ CASE d.state = "rejected" -> pc' = "exited" /\ exitCode' \in {0, 1}
              [] d.state = "pending" -> pc' = "exited" /\ exitCode' = 0
              [] d.value.transport = "unknown" -> pc' = "exited" /\ exitCode' = 1
              [] OTHER -> pc' = "verifyTransport" /\ UNCHANGED exitCode
    /\ UNCHANGED << impl, options, metrics, results, clients, transportConfig, tests,
                    result, client, connecting, attempt, lastError, idx, report,
                    exec, faults, planned, entryAttempts, attemptLog, sessions >>

\* a main that falls back on the probed label when no handshake succeeded
AutoTransportUnverified(detected, returns, verified) ==
    IF returns = "object" THEN verified.transport ELSE detected.transport

\* main: if (verified) transportConfig.type = verified.transport
AutoTransport(detected, returns, verified) ==
    IF returns = "object" THEN verified.transport ELSE Undefined

\* main: the rest of the auto branch after await verifyTransport(args[1],
\* detected.transport), and framework.testServer(transportConfig, tests) up
\* to its first await; exit(1) when nothing was verified
AutoVerified ==
    /\ pc = "verifyTransport" /\ call.done
    /\ LET type == AutoTransport(call.detection.value, call.returns, call.value)
           confirmed == { call.log[i].transport : i \in
                            { j \in DOMAIN call.log : call.log[j].connect = "won"
                                                      /\ call.log[j].close = "fulfils" } }
           after == [method |-> "main", done |-> TRUE, url |-> call.url,
                     detected |-> call.detection.value.transport,
                     returns |-> call.returns, confirmed |-> confirmed]
       IN /\ call' = after
          /\ IF type = Undefined
             THEN /\ pc' = "exited" /\ exitCode' = 1
                  /\ UNCHANGED << transportConfig, tests, result, planned >>
             ELSE /\ pc' = "connect"
                  /\ transportConfig' = Descriptor(type, Undefined, call.url.href)
                  /\ \E t \in CliSuites :
                       /\ tests' = t
                       /\ planned' = planned + PlanTests(Plan(t, type))
                  /\ result' = [NoResult EXCEPT !.transport = type]
                  /\ UNCHANGED exitCode
    /\ client' = 0 /\ connecting' = 0 /\ attempt' = 0 /\ lastError' = NullishValue
    /\ idx' = 0
    /\ entryAttempts' = metrics.connectionAttempts
    /\ attemptLog' = << >>
    /\ UNCHANGED << impl, options, metrics, results, clients, report, exec, faults,
                    sessions >>

NextAuto ==
    \/ AutoDetect
    \/ VerifyConnect
    \/ VerifyClose
    \/ VerifyReturnNull
    \/ AutoVerified
    \/ ConnectAttempt
    \/ VerifyConnection
    \/ ConnectExhausted
    \/ RunStep
    \/ PhasesDone
    \/ CloseSession
    \/ AppendResult
    \/ GenerateReport
    \/ CliExit

SpecAuto == InitAuto /\ [][NextAuto]_vars

(***************************************************************************)
(* A tool test that outlives its timeout.  executeTest's Promise.race      *)
(* leaves the function it started running: when the timer wins while the   *)
(* function awaits client.callTool, executeTest returns the TEST_TIMEOUT   *)
(* TestResult and the suite goes on; the function resumes when callTool    *)
(* settles, whenever that is.  call.inFlight holds the indices of the      *)
(* tool tests whose function is still awaiting callTool.                   *)
(***************************************************************************)
InitInFlight ==
    /\ impl = "v2"
    /\ options = Constructor(0, 0)
    /\ pc = "toolsTimed"
    /\ exec = NoExec
    /\ call \in { [method |-> "runEnhancedToolTest", done |-> FALSE,
                   toolTests |-> ts, validateSchemas |-> v, log |-> << >>,
                   inFlight |-> {}, resumed |-> << >>] :
                    ts \in ToolTestLists, v \in BOOLEAN }
    /\ Idle

\* runEnhancedToolTest: executeTest(name, fn) with callTool settling at
\* `at`; the increments of totalAssertions made before executeTest returned
RunToolTestTimed ==
    /\ pc = "toolsTimed" /\ ~call.done /\ Len(result.tests) < Len(call.toolTests)
    /\ LET index == Len(result.tests) + 1
           toolTest == call.toolTests[index] IN
       \E listed \in ListOutcomes, called \in CallOutcomes, at \in SuiteTimes(options.timeout) :
         LET ran == toolTestFn(toolTest, call.validateSchemas, listed, called)
             invoked == \E i \in DOMAIN ran.events : ran.events[i] = "callTool"
             late == invoked /\ called # "never" /\ at > options.timeout
             out == executeTest("Tool Test: " \o toolTest.toolName,
                                [ran.fn EXCEPT !.at = at], options.timeout, "timer")
         IN /\ invoked \/ (called = "content" /\ at = 0)
            /\ called = "never" => at = 0
            /\ metrics' = [metrics EXCEPT !.totalTestsRun = @ + 1,
                                          !.totalAssertions =
                                             @ + (IF late THEN 0 ELSE ran.assertions)]
            /\ result' = [result EXCEPT !.tests = Append(@, out.test)]
            /\ call' = [call EXCEPT
                          !.log = Append(@, [listed |-> listed, called |-> called,
                                             late |-> late,
                                             assertions |-> IF late THEN 0
                                                            ELSE ran.assertions]),
                          !.inFlight = IF late THEN @ \cup {index} ELSE @]
    /\ UNCHANGED << impl, options, results, clients, pc, transportConfig, tests, client,
                    connecting, attempt, lastError, idx, report, exitCode, exec, faults,
                    planned, entryAttempts, attemptLog, sessions >>

\* callTool settles for a function whose race is over: the function goes on
\* with the response check and the assertions loop, and what it returns or
\* throws settles a promise nobody awaits
ToolTestResumes ==
    /\ pc = "toolsTimed"
    /\ \E index \in call.inFlight :
         LET ran == toolTestFn(call.toolTests[index], call.validateSchemas,
                               call.log[index].listed, call.log[index].called)
         IN /\ metrics' = [metrics EXCEPT !.totalAssertions = @ + ran.assertions]
            /\ call' = [call EXCEPT !.inFlight = @ \ {index},
                                    !.resumed = Append(@, [index |-> index,
                                                           assertions |-> ran.assertions,
                                                           after |-> Len(result.tests)])]
    /\ UNCHANGED << impl, options, results, clients, pc, transportConfig, tests, result,
                    client, connecting, attempt, lastError, idx, report, exitCode, exec,
                    faults, planned, entryAttempts, attemptLog, sessions >>

\* testServer: result.status = 'passed' after the loop
ToolTestsTimedDone ==
    /\ pc = "toolsTimed" /\ ~call.done /\ Len(result.tests) = Len(call.toolTests)
    /\ result' = Finalized([result EXCEPT !.status = "passed"])
    /\ call' = [call EXCEPT !.done = TRUE]
    /\ UNCHANGED << impl, options, metrics, results, clients, pc, transportConfig, tests,
                    client, connecting, attempt, lastError, idx, report, exitCode, exec,
                    faults, planned, entryAttempts, attemptLog, sessions >>

NextInFlight == RunToolTestTimed \/ ToolTestResumes \/ ToolTestsTimedDone

SpecInFlight == InitInFlight /\ [][NextInFlight]_vars

(***************************************************************************)
(* generateRecommendations, over the SuiteResults of a run.  A recorded    *)
(* test carries what executeTest stores: name, status, duration and, when  *)
(* the function returned in time, its return value as result.              *)
(***************************************************************************)
\* thresholds of generateRecommendations, requests of the sequential test
SlowTestThreshold == 1000
VarianceThreshold == 100
RapidRequests == 20

\* test.result of a test that failed: the field is absent
NoValue == [absent |-> TRUE]

\* executeTest: the TestResult with its duration and result
RecordedTest(name, fn, timeout) ==
    LET out == executeTest(name, fn, timeout, "timer").test
    IN [name |-> name, status |-> out.status,
        duration |-> IF TimerWins(fn, timeout, "timer") THEN timeout ELSE fn.at,
        result |-> IF out.status = "passed" THEN fn.val ELSE NoValue]

SumOf(numbers) ==
    LET RECURSIVE Sum(_)
        Sum(i) == IF i = 0 THEN 0 ELSE Sum(i - 1) + numbers[i]
    IN Sum(Len(numbers))

\* calculateVariance: the mean of the squared differences from the mean, as
\* the exact fraction num / den
calculateVariance(numbers) ==
    LET n == Len(numbers)
        total == SumOf(numbers)
        \* (x - total / n)^2 = (n * x - total)^2 / n^2
        squaredDiffs == [i \in DOMAIN numbers |->
                           (n * numbers[i] - total) * (n * numbers[i] - total)]
    IN [num |-> SumOf(squaredDiffs), den |-> n * n * n]

\* Math.round of a non-negative fraction
Round(q) == (2 * q.num + q.den) \div (2 * q.den)

\* the response times of the sequential requests: half take a, half take b
Timings(a, b) == [i \in 1..RapidRequests |-> IF i % 2 = 1 THEN a ELSE b]

TimingPatterns == { Timings(10, 10), Timings(10, 30), Timings(10, 31), Timings(100, 100) }

\* 'Rapid Sequential Requests': the value the test function returns
rapidSequentialFn(timings) ==
    LET variance == calculateVariance(timings)
    IN Behaviour("returns", SumOf(timings),
                 [requests |-> Len(timings), variance |-> Round(variance),
                  stable |-> variance.num < VarianceThreshold * variance.den])

\* a list test: the count listed after `at` ms, or the client's rejection
countFn(reply) ==
    IF reply.kind = "returns"
    THEN Behaviour("returns", reply.at, [count |-> reply.val, duration |-> reply.at])
    ELSE reply

\* the tests of one suite as executeTest recorded them
DiscoveryRecords ==
    { << RecordedTest("List Tools", countFn(tools), DefaultTimeout),
         RecordedTest("List Resources", countFn(Behaviour("returns", 20, resources)),
                      DefaultTimeout),
         RecordedTest("List Prompts", countFn(Behaviour("returns", 20, prompts)),
                      DefaultTimeout) >> :
        tools \in { Behaviour("returns", at, n) : at \in {20, 1001}, n \in {0, 2} }
                    \cup { Behaviour("rejects", 20, PlainError("request failed")),
                           Behaviour("never", 0, NullishValue) },
        resources \in {0, 1}, prompts \in {0, 1} }

StabilityRecords ==
    { << >> }
      \cup { << RecordedTest("Rapid Sequential Requests", rapidSequentialFn(t),
                             DefaultTimeout) >> : t \in TimingPatterns }
      \cup { << RecordedTest("Rapid Sequential Requests",
                             Behaviour("rejects", 20, PlainError("request failed")),
                             DefaultTimeout) >> }

\* test-improvements.js: a custom test that takes 1500 ms
CustomRecords ==
    { << >>,
      << RecordedTest("Slow Test", Behaviour("returns", 1500, [slow |-> TRUE]),
                      DefaultTimeout) >> }

\* a suite whose connection failed has no tests
RecordedSuites ==
    { << >> } \cup { d \o s \o c : d \in DiscoveryRecords, s \in StabilityRecords,
                                  c \in CustomRecords }

\* the suites of the further descriptors of a multi-transport run
FurtherSuites ==
    { << >>,
      << RecordedTest("List Tools", countFn(Behaviour("returns", 20, 2)), DefaultTimeout) >>,
      << RecordedTest("Rapid Sequential Requests", rapidSequentialFn(Timings(10, 31)),
                      DefaultTimeout) >>,
      << RecordedTest("Slow Test", Behaviour("returns", 1500, [slow |-> TRUE]),
                      DefaultTimeout) >> }

RecordedRuns ==
    { << [tests |-> first] >> : first \in RecordedSuites }
      \cup { << [tests |-> first], [tests |-> second] >> :
               first \in RecordedSuites, second \in FurtherSuites }

\* this.results.flatMap(r => r.tests)
AllTests(rs) ==
    LET RECURSIVE Flat(_)
        Flat(i) == IF i = 0 THEN << >> ELSE Flat(i - 1) \o rs[i].tests
    IN Flat(Len(rs))

\* tests.filter(keep).map(t => t) in order
FilterTests(ts, Keep(_)) ==
    LET RECURSIVE Filter(_)
        Filter(i) == IF i = 0 THEN << >>
                     ELSE IF Keep(ts[i]) THEN Append(Filter(i - 1), ts[i])
                     ELSE Filter(i - 1)
    IN Filter(Len(ts))

\* t.name === name && t.result?.count > 0
HasCount(t, name) ==
    t.name = name /\ "count" \in DOMAIN t.result /\ t.result.count > 0

\* t.name === 'Rapid Sequential Requests' && t.result?.variance > 100
HighVariance(t) ==
    /\ t.name = "Rapid Sequential Requests"
    /\ "variance" \in DOMAIN t.result
    /\ t.result.variance > VarianceThreshold

\* a stability check that reads the result's stable flag
UnstableFlag(t) ==
    /\ t.name = "Rapid Sequential Requests"
    /\ "stable" \in DOMAIN t.result
    /\ ~t.result.stable

\* recommendations that take the stability verdict from result.stable
generateRecommendationsByFlag(rs) ==
    LET all == AllTests(rs)
        Slow(t) == t.duration > SlowTestThreshold
        slowTests == FilterTests(all, Slow)
        Has(name) == \E i \in DOMAIN all : HasCount(all[i], name)
        unstableTests == FilterTests(all, UnstableFlag)
    IN  (IF Len(slowTests) > 0
         THEN << [type |-> "performance", severity |-> "warning",
                  details |-> [i \in DOMAIN slowTests |->
                                 [name |-> slowTests[i].name,
                                  duration |-> slowTests[i].duration]]] >>
         ELSE << >>)
        \o (IF ~Has("List Tools") /\ ~Has("List Resources") /\ ~Has("List Prompts")
            THEN << [type |-> "capability", severity |-> "info", details |-> << >>] >>
            ELSE << >>)
        \o (IF Len(unstableTests) > 0
            THEN << [type |-> "stability", severity |-> "warning", details |-> << >>] >>
            ELSE << >>)

generateRecommendations(rs) ==
    LET all == AllTests(rs)
        Slow(t) == t.duration > SlowTestThreshold
        slowTests == FilterTests(all, Slow)
        Has(name) == \E i \in DOMAIN all : HasCount(all[i], name)
        unstableTests == FilterTests(all, HighVariance)
    IN  (IF Len(slowTests) > 0
         THEN << [type |-> "performance", severity |-> "warning",
                  details |-> [i \in DOMAIN slowTests |->
                                 [name |-> slowTests[i].name,
                                  duration |-> slowTests[i].duration]]] >>
         ELSE << >>)
        \o (IF ~Has("List Tools") /\ ~Has("List Resources") /\ ~Has("List Prompts")
            THEN << [type |-> "capability", severity |-> "info", details |-> << >>] >>
            ELSE << >>)
        \o (IF Len(unstableTests) > 0
            THEN << [type |-> "stability", severity |-> "warning", details |-> << >>] >>
            ELSE << >>)

InitRecommend ==
    /\ impl = "v2"
    /\ options = Constructor(0, 0)
    /\ pc = "recommend"
    /\ exec = NoExec
    /\ call \in { [method |-> "generateRecommendations", done |-> FALSE,
                   results |-> rs, out |-> << >>] : rs \in RecordedRuns }
    /\ Idle

RecommendCall ==
    /\ pc = "recommend" /\ ~call.done
    /\ call' = [call EXCEPT !.done = TRUE, !.out = generateRecommendations(call.results)]
    /\ UNCHANGED << impl, options, metrics, results, clients, pc, transportConfig, tests,
                    result, client, connecting, attempt, lastError, idx, report, exitCode,
                    exec, faults, planned, entryAttempts, attemptLog, sessions >>

NextRecommend == RecommendCall

SpecRecommend == InitRecommend /\ [][NextRecommend]_vars

(***************************************************************************)
(* detectTransport, event by event.  The promise is resolved by the first  *)
(* of the handlers that runs: 'end' and 'error' on the response, 'error'   *)
(* and the idle timeout on the request; resolve() called again changes     *)
(* nothing.  The server ends its response, keeps the stream open (an SSE   *)
(* endpoint: quiet, or sending keep-alive data), never answers, or refuses *)
(* the connection.  call.resolves lists the values handed to resolve().    *)
(***************************************************************************)
ServerBehaviours == {"ends", "open quiet", "open chatty", "silent", "refuses"}

\* responses of a server that answers: any response when it ends it, a
\* response within the cap when it keeps the stream open
ProbedServers ==
    { [behaviour |-> "ends", res |-> r] : r \in Responses }
      \cup { [behaviour |-> b, res |-> r] :
               b \in {"open quiet", "open chatty"},
               r \in { x \in Responses : x.length <= BodyCap /\ x.header = Undefined } }
      \cup { [behaviour |-> b, res |-> NoResponse] : b \in {"silent", "refuses"} }

InitProbe ==
    /\ impl = "v2"
    /\ options = Constructor(0, 0)
    /\ pc = "probe"
    /\ exec = NoExec
    /\ call \in { [method |-> "detectTransport", done |-> FALSE, url |-> u, server |-> s,
                   stage |-> "start", responded |-> FALSE, ended |-> FALSE,
                   received |-> 0, destroyed |-> FALSE,
                   detection |-> Settlement("pending", NoDetection),
                   resolves |-> << >>] :
                    u \in Urls, s \in ProbedServers }
    /\ Idle

\* resolve(value): settles the promise when it is pending
Resolved(value) ==
    [call EXCEPT !.detection = IF @.state = "pending" THEN Settlement("resolved", value)
                               ELSE @,
                 !.resolves = Append(@, value)]

ProbeFrame ==
    UNCHANGED << impl, options, metrics, results, clients, pc, transportConfig, tests,
                 result, client, connecting, attempt, lastError, idx, report, exitCode,
                 exec, faults, planned, entryAttempts, attemptLog, sessions >>

\* new URL(url), client.request(url, options, callback), req.end()
ProbeRequest ==
    /\ pc = "probe" /\ call.stage = "start"
    /\ call' = IF UrlAccepted(call.url)
               THEN [call EXCEPT !.stage = "requested"]
               ELSE [call EXCEPT !.stage = "closed",
                                 !.detection = Settlement("rejected", NoDetection)]
    /\ ProbeFrame

\* the callback of client.request: the response's head has arrived
ProbeResponse ==
    /\ pc = "probe" /\ call.stage = "requested"
    /\ call.server.behaviour \in {"ends", "open quiet", "open chatty"}
    /\ call' = [call EXCEPT !.stage = "responding", !.responded = TRUE]
    /\ ProbeFrame

\* res.on('data'): the body so far, and req.destroy() past the first 1 KB
ProbeData ==
    /\ pc = "probe" /\ call.stage = "responding" /\ ~call.destroyed
    /\ \/ /\ call.received < call.server.res.length
          /\ call' = [call EXCEPT !.received = call.server.res.length,
                                  !.destroyed = call.server.res.length > BodyCap]
       \/ /\ call.received >= call.server.res.length
          /\ call.server.behaviour = "open chatty"
          /\ call' = [call EXCEPT !.received = @ + BodyCap,
                                  !.destroyed = call.received + BodyCap > BodyCap]
    /\ ProbeFrame

\* res.on('end'): the server ended the response; after req.destroy() the
\* response still ends when its last byte had arrived
ProbeEnd ==
    /\ pc = "probe" /\ call.stage = "responding"
    /\ call.server.behaviour = "ends"
    /\ call.received >= call.server.res.length
    /\ call' = [Resolved(classify(call.server.res)) EXCEPT !.stage = "closed",
                                                          !.ended = TRUE]
    /\ ProbeFrame

\* res.on('error'): the connection broke, or the request was destroyed
\* under a response that had not ended
ProbeResponseError ==
    /\ pc = "probe" /\ call.stage \in {"responding", "aborted"}
    /\ call.stage = "aborted" => call.destroyed
    /\ call.server.behaviour \in {"ends", "open quiet", "open chatty"}
    /\ call' = [Resolved(DetectionResult("unknown", 0, "Failed to connect to server"))
                  EXCEPT !.stage = "closed"]
    /\ ProbeFrame

\* req.on('error'): no connection, or the request was destroyed before a
\* response had arrived
ProbeRequestError ==
    /\ pc = "probe"
    /\ \/ call.stage = "requested" /\ call.server.behaviour = "refuses"
       \/ call.stage = "aborted" /\ call.server.behaviour \in {"silent", "refuses"}
    /\ call' = [Resolved(DetectionResult("unknown", 0, "Connection error: ECONNREFUSED"))
                  EXCEPT !.stage = "closed"]
    /\ ProbeFrame

\* req.setTimeout(5000, ...): nothing arrived for 5000 ms; req.destroy()
\* and resolve, the destroyed request then emits its 'error'
ProbeTimeout ==
    /\ pc = "probe" /\ call.stage \in {"requested", "responding"} /\ ~call.destroyed
    /\ call.server.behaviour # "refuses"
    /\ call' = [Resolved(DetectionResult("unknown", 0, "Connection timeout"))
                  EXCEPT !.stage = "aborted", !.destroyed = TRUE]
    /\ ProbeFrame

NextProbe ==
    \/ ProbeRequest
    \/ ProbeResponse
    \/ ProbeData
    \/ ProbeEnd
    \/ ProbeResponseError
    \/ ProbeRequestError
    \/ ProbeTimeout

SpecProbe == InitProbe /\ [][NextProbe]_vars

\* every handler that can run does run in the end
SpecProbeFair == SpecProbe /\ WF_vars(NextProbe)

(***************************************************************************)
(* The package entry point exports MCPTestFrameworkAdvanced (v2) under the *)
(* name MCPTestFramework as well.  A caller of the original                *)
(* lib/mcp-test-framework.js writes testServer(command, args, testSuite):  *)
(* the original runs it over stdio; v2 takes command for its transport     *)
(* descriptor and args for its tests.  call.legacy is what the original    *)
(* yields, result / results what v2 yields for the same call.              *)
(***************************************************************************)
\* transportConfig when the first argument is a string: a string has no
\* type, command or url property
StringDescriptor(command) == Descriptor(Undefined, Undefined, Undefined)

\* tests when the second argument is an array: none of the suite's fields
\* is set, so the defaults apply
ArraySuite(args) == DefaultSuite

LegacyReplies ==
    { Behaviour("returns", 0, NullishValue),
      Behaviour("rejects", 0, PlainError("request failed")),
      Behaviour("never", 0, NullishValue) }

\* { testDiscovery, customTests: [{ name, fn }] }: the functions by how
\* they settle
LegacySuites ==
    { [testDiscovery |-> d, customTests |-> c] :
        d \in BOOLEAN,
        c \in { << >> } \cup { << fn >> : fn \in LegacyReplies } }

\* the stdio server behind the command: whether it starts and connects, how
\* it answers the list requests, whether close() fulfils
LegacyServers ==
    { [connects |-> c, lists |-> l, closes |-> k] :
        c \in BOOLEAN, l \in LegacyReplies, k \in BOOLEAN }

NoOutcome == [status |-> Undefined, tests |-> << >>]

\* lib/mcp-test-framework.js testServer: connect over stdio, the discovery
\* tests, the custom tests, close; executeTest is v1's
legacyTestServer(suite, server, timeout) ==
    LET discovery == IF suite.testDiscovery
                     THEN [i \in DOMAIN DiscoveryTests |->
                             executeTestV1(DiscoveryTests[i].name, server.lists,
                                           timeout, "timer").test.status]
                     ELSE << >>
        custom == [i \in DOMAIN suite.customTests |->
                     executeTestV1(CustomNames[i], suite.customTests[i],
                                   timeout, "timer").test.status]
    IN  IF ~server.connects THEN [status |-> "failed", tests |-> << >>]
        ELSE [status |-> IF server.closes THEN "passed" ELSE "failed",
              tests |-> discovery \o custom]

InitCompat ==
    /\ impl = "v2"
    /\ options \in {Constructor(r, 0) : r \in 0..MaxRetry}
    /\ exec = NoExec
    /\ call \in { [method |-> "testServer(command, args, testSuite)", done |-> FALSE,
                   command |-> c, args |-> a, testSuite |-> s, server |-> v,
                   legacy |-> NoOutcome] :
                    c \in {"node", "python3"}, a \in {<< >>, << "server.js" >>},
                    s \in LegacySuites, v \in LegacyServers }
    \* v2's testServer(command, args) up to its first await
    /\ pc = "connect"
    /\ transportConfig = StringDescriptor(call.command)
    /\ tests = ArraySuite(call.args)
    /\ result = NoResult
    /\ client = 0 /\ connecting = 0 /\ attempt = 0 /\ lastError = NullishValue /\ idx = 0
    /\ report = NoReport /\ exitCode = -1
    /\ faults = 0 /\ planned = 0 /\ entryAttempts = 0 /\ attemptLog = << >>
    /\ sessions = << >> /\ results = << >> /\ clients = << >>
    /\ metrics = [connectionAttempts |-> 0, totalTestsRun |-> 0, totalAssertions |-> 0]

\* the same call on the original framework
LegacyTestServer ==
    /\ call.method = "testServer(command, args, testSuite)" /\ ~call.done
    /\ call' = [call EXCEPT !.done = TRUE,
                            !.legacy = legacyTestServer(call.testSuite, call.server,
                                                        options.timeout)]
    /\ UNCHANGED << impl, options, metrics, results, clients, pc, transportConfig, tests,
                    result, client, connecting, attempt, lastError, idx, report, exitCode,
                    exec, faults, planned, entryAttempts, attemptLog, sessions >>

NextCompat == LegacyTestServer \/ ConnectAttempt \/ ConnectExhausted

SpecCompat == InitCompat /\ [][NextCompat]_vars

(***************************************************************************)
(* Test functions that outlive their test.  runCustomTest hands the client *)
(* to the caller's function; executeTest's race abandons a function that   *)
(* has not settled at the timeout, and testServer closes the client after  *)
(* the last test without waiting for abandoned functions.  A function is   *)
(* a sequence of awaits: a request on the client, or a timer.  A request   *)
(* pending when the client closes is rejected, which ends a function that  *)
(* has no try around it; a timer goes on.                                  *)
(***************************************************************************)
\* the built-in shapes (one request; listTools then callTool) and caller
\* functions that wait between or before their requests
FnPrograms ==
    { << "request" >>, << "request", "request" >>,
      << "sleep", "request" >>, << "request", "sleep", "request" >> }

FnLists == UNION { [1..n -> FnPrograms] : n \in 1..MaxTests }

InitOrphans ==
    /\ impl = "v2"
    /\ options = Constructor(0, 0)
    /\ pc = "orphans"
    /\ exec = NoExec
    /\ call \in { [method |-> "testServer", done |-> FALSE, programs |-> ps,
                   at |-> [i \in DOMAIN ps |-> 0], session |-> "open",
                   requests |-> << >>] : ps \in FnLists }
    /\ Idle

Ended(i) == Len(call.programs[i]) + 1

\* function i goes on to its step k: a request is issued on the client
\* as it is then; on a closed client it throws and the function ends
Advanced(i, k) ==
    IF k > Len(call.programs[i]) THEN [call EXCEPT !.at[i] = Ended(i)]
    ELSE IF call.programs[i][k] = "request"
    THEN [call EXCEPT !.at[i] = IF call.session = "open" THEN k ELSE Ended(i),
                      !.requests = Append(@, [by |-> i, session |-> call.session])]
    ELSE [call EXCEPT !.at[i] = k]

OrphansFrame ==
    UNCHANGED << impl, options, results, clients, pc, transportConfig, tests, client,
                 connecting, attempt, lastError, idx, report, exitCode, exec, faults,
                 planned, entryAttempts, attemptLog, sessions >>

\* executeTest: totalTestsRun++, then fn() runs up to its first await
StartTestFn ==
    /\ pc = "orphans" /\ call.session = "open"
    /\ Len(result.tests) < Len(call.programs)
    /\ call.at[Len(result.tests) + 1] = 0
    /\ call' = Advanced(Len(result.tests) + 1, 1)
    /\ metrics' = [metrics EXCEPT !.totalTestsRun = @ + 1]
    /\ UNCHANGED result
    /\ OrphansFrame

\* what function i awaits settles and it goes on; when it returns and its
\* test is still awaiting it, the TestResult is recorded as passed
FnContinues ==
    /\ pc = "orphans"
    /\ \E i \in DOMAIN call.programs :
         /\ call.at[i] \in 1..Len(call.programs[i])
         /\ call' = Advanced(i, call.at[i] + 1)
         /\ result' = IF call.at[i] = Len(call.programs[i]) /\ i = Len(result.tests) + 1
                      THEN [result EXCEPT !.tests =
                              Append(@, TestResult(CustomNames[i], "passed", Undefined,
                                                   Undefined, NoDetails))]
                      ELSE result
    /\ UNCHANGED metrics
    /\ OrphansFrame

\* the timer of the race fires first: the TestResult is failed with
\* TEST_TIMEOUT and the function is left running
TestTimesOut ==
    /\ pc = "orphans" /\ call.session = "open"
    /\ Len(result.tests) < Len(call.programs)
    /\ LET i == Len(result.tests) + 1
           out == executeTest(CustomNames[i], Behaviour("never", 0, NullishValue),
                              options.timeout, "timer")
       IN /\ call.at[i] \in 1..Len(call.programs[i])
          /\ result' = [result EXCEPT !.tests = Append(@, out.test)]
    /\ UNCHANGED << call, metrics >>
    /\ OrphansFrame

\* testServer's finally: client.close() after the last test; the requests
\* pending on the client are rejected
CloseWithOrphans ==
    /\ pc = "orphans" /\ call.session = "open"
    /\ Len(result.tests) = Len(call.programs)
    /\ call' = [call EXCEPT
                  !.session = "closed",
                  !.done = TRUE,
                  !.at = [i \in DOMAIN call.programs |->
                            IF /\ call.at[i] \in 1..Len(call.programs[i])
                               /\ call.programs[i][call.at[i]] = "request"
                            THEN Ended(i) ELSE call.at[i]]]
    /\ result' = Finalized([result EXCEPT !.status = "passed"])
    /\ UNCHANGED metrics
    /\ OrphansFrame

NextOrphans == StartTestFn \/ FnContinues \/ TestTimesOut \/ CloseWithOrphans

SpecOrphans == InitOrphans /\ [][NextOrphans]_vars

(***************************************************************************)
(* sanitizeConfig and the caller's descriptor.  The descriptor is an       *)
(* object whose headers field refers to another object; objects are kept   *)
(* in a heap so that a write through a shared reference shows in every     *)
(* holder of it.                                                           *)
(***************************************************************************)
CallerHeaders == "headers of the caller"
SafeHeaders == "safeHeaders"

\* the caller's descriptor with its headers object on the heap
HeapOf(config) ==
    [caller |-> [config EXCEPT !.headers = CallerHeaders],
     sanitized |-> [config EXCEPT !.headers = CallerHeaders],
     objects |-> [o \in {CallerHeaders} |-> config.headers]]

\* a descriptor with the headers object it refers to in place of the reference
Deref(heap, descriptor) ==
    [descriptor EXCEPT !.headers = heap.objects[descriptor.headers]]

\* a sanitizeConfig that redacts the object it was given
sanitizeConfigInPlace(heap) ==
    LET old == heap.objects[CallerHeaders]
        redactedAuth == IF heap.caller.auth \notin {Undefined, ""}
                        THEN "[REDACTED]" ELSE heap.caller.auth
    IN [caller |-> [heap.caller EXCEPT !.auth = redactedAuth],
        sanitized |-> [heap.caller EXCEPT !.auth = redactedAuth],
        objects |-> [o \in {CallerHeaders} |->
                       [key \in DOMAIN old |->
                          IF SecretKey(key) THEN "[REDACTED]" ELSE old[key]]]]

\* sanitizeConfig on objects: sanitized = { ...config } has the caller's
\* fields and, at first, the caller's headers object; safeHeaders is a new
\* object, and sanitized.headers and sanitized.auth are assigned on the copy
sanitizeConfigOn(heap) ==
    LET old == heap.objects[CallerHeaders]
        copy == heap.caller
        safeHeaders == [key \in DOMAIN old |->
                          IF SecretKey(key) THEN "[REDACTED]" ELSE old[key]]
    IN [caller |-> heap.caller,
        sanitized |-> [copy EXCEPT
                         !.headers = IF copy.hasHeaders THEN SafeHeaders ELSE @,
                         !.auth = IF copy.auth \notin {Undefined, ""}
                                  THEN "[REDACTED]" ELSE @],
        objects |-> IF copy.hasHeaders
                    THEN [o \in {CallerHeaders, SafeHeaders} |->
                            IF o = CallerHeaders THEN old ELSE safeHeaders]
                    ELSE heap.objects]

InitFrame ==
    /\ impl = "v2"
    /\ options = Constructor(0, 0)
    /\ pc = "frame"
    /\ exec = NoExec
    /\ call \in { [method |-> "testServer", done |-> FALSE, stage |-> "called",
                   config |-> c, heap |-> HeapOf(c), recorded |-> c,
                   sent |-> << >>] : c \in Configs }
    /\ Idle

FrameUnchanged ==
    UNCHANGED << impl, options, metrics, results, clients, pc, transportConfig, tests,
                 result, client, connecting, attempt, lastError, idx, report, exitCode,
                 exec, faults, planned, entryAttempts, attemptLog, sessions >>

\* testServer: result.config = this.sanitizeConfig(transportConfig)
RecordSanitized ==
    /\ pc = "frame" /\ call.stage = "called"
    /\ LET heap == sanitizeConfigOn(call.heap)
       IN call' = [call EXCEPT !.stage = "recorded",
                               !.heap = heap,
                               !.recorded = Deref(heap, heap.sanitized)]
    /\ FrameUnchanged

\* connectToServer(transportConfig) -> createTransport: the transport gets
\* requestInit.headers = config.headers || {} of the caller's descriptor
OpenWithHeaders ==
    /\ pc = "frame" /\ call.stage = "recorded"
    /\ call' = [call EXCEPT !.stage = "opened",
                            !.done = TRUE,
                            !.sent = call.heap.objects[call.heap.caller.headers]]
    /\ FrameUnchanged

NextFrame == RecordSanitized \/ OpenWithHeaders

SpecFrame == InitFrame /\ [][NextFrame]_vars

(***************************************************************************)
(* Properties.                                                             *)
(***************************************************************************)
\* connection attempts counted by the current connectToServer call
Attempts == metrics.connectionAttempts - entryAttempts

\* a testServer call has returned and none is running
SuiteOver == pc \in {"idle", "reported", "exited"} /\ Len(results) > 0

LastSuite == results[Len(results)]
LastSession == sessions[Len(sessions)]

NoSuccess == \A i \in DOMAIN attemptLog : attemptLog[i] # "ok"

ErrorFields(e) == [message |-> e.message, code |-> e.code, details |-> e.details]

OpenClients == {c \in DOMAIN clients : clients[c].open}

\* C1: connectToServer (v2) makes its attempts one after another and stops
\* at the first attempt whose connect() and liveness call both succeed;
\* when every attempt fails, metrics.connectionAttempts has grown by
\* exactly retryAttempts + 1 when the connection error is raised.
C1_ConnectAttempts ==
    impl = "v2" =>
      /\ \A i \in DOMAIN attemptLog : attemptLog[i] = "ok" => i = Len(attemptLog)
      /\ pc = "connect" =>
           /\ NoSuccess
           /\ Attempts = Len(attemptLog) /\ attempt = Attempts
           /\ Attempts <= options.retryAttempts + 1
      /\ pc = "verify" =>
           /\ NoSuccess
           /\ Attempts = Len(attemptLog) + 1 /\ attempt = Len(attemptLog)
           /\ Attempts <= options.retryAttempts + 1
      /\ pc \in {"run", "closing", "append"} =>
           /\ attemptLog # << >> /\ attemptLog[Len(attemptLog)] = "ok"
           /\ Attempts = Len(attemptLog)
           /\ Attempts <= options.retryAttempts + 1
      /\ SuiteOver /\ LastSession = 0 =>
           /\ NoSuccess
           /\ Len(attemptLog) = options.retryAttempts + 1
           /\ Attempts = options.retryAttempts + 1
           /\ LastSuite.status = "failed"
           /\ LastSuite.error.code = "CONNECTION_ERROR"

\* two attempts on an unreachable target with retryAttempts = 1
C1_Witness ==
    /\ impl = "v2" /\ options.retryAttempts = 1
    /\ pc = "idle" /\ Len(results) = 1
    /\ attemptLog = << "connect", "connect" >>
    /\ metrics.connectionAttempts = 2
    /\ LastSuite.error.code = "CONNECTION_ERROR"

\* C2: a descriptor that createTransport rejects is not retried
\* (metrics.connectionAttempts grows by exactly 1 whatever retryAttempts
\* is) and its invalid-configuration / invalid-transport error is the
\* SuiteResult's top-level error.
C2_InvalidConfigNotRetried ==
    (impl = "v2" /\ SuiteOver /\ ~createTransport(transportConfig).ok) =>
      /\ Attempts = 1
      /\ LastSession = 0
      /\ LastSuite.status = "failed"
      /\ LastSuite.error.code \in {"INVALID_CONFIG", "INVALID_TRANSPORT"}

\* C3: every Session connectToServer returned is closed exactly once
\* before its SuiteResult is appended, whether the phases completed or one
\* raised; no other client is ever closed.
C3_SessionClosedExactlyOnce ==
    /\ \A i \in DOMAIN results :
         sessions[i] # 0 =>
           /\ clients[sessions[i]].closeCalls = 1
           /\ ~clients[sessions[i]].open
    /\ (pc = "append" /\ client # 0) => clients[client].closeCalls = 1
    /\ \A c \in DOMAIN clients :
         clients[c].closeCalls > 0 =>
           /\ clients[c].closeCalls = 1
           /\ c = client \/ \E i \in DOMAIN sessions : sessions[i] = c

\* C4: at every moment at most one client connected by the framework (v2)
\* is open.
C4_AtMostOneOpenClient ==
    impl = "v2" => Cardinality(OpenClients) <= 1

\* C5: executeTest never throws or rejects: whatever the test function
\* does, it returns a TestResult whose status is passed or failed.
C5_ExecuteTestNeverThrows ==
    exec.done =>
      /\ ~exec.out.raised
      /\ exec.out.test.status \in {"passed", "failed"}

\* C6: under the configured timeout T, executeTest records passed for a
\* function that returns before T, and failed with code TEST_TIMEOUT and
\* details { testName, timeout: T } for one that has not settled at T.
C6_TimeoutRace ==
    exec.done =>
      /\ (exec.fn.kind = "returns" /\ exec.fn.at < options.timeout) =>
           /\ ~exec.out.raised
           /\ exec.out.test = TestResult(exec.name, "passed", Undefined, Undefined, NoDetails)
      /\ (exec.fn.kind = "never"
            \/ (exec.fn.kind \in {"returns", "rejects"} /\ exec.fn.at > options.timeout)) =>
           /\ ~exec.out.raised
           /\ exec.out.test.name = exec.name
           /\ exec.out.test.status = "failed"
           /\ exec.out.test.errorCode = "TEST_TIMEOUT"
           /\ exec.out.test.error =
                "Test \"" \o exec.name \o "\" timed out after "
                  \o ToString(options.timeout) \o "ms"
           /\ exec.out.test.errorDetails =
                [testName |-> exec.name, timeout |-> options.timeout]

\* a function that settles 1 ms after a 100 ms timeout
C6_Witness ==
    /\ exec.done /\ options.timeout = EdgeCaseTimeout
    /\ exec.fn.kind = "returns" /\ exec.fn.at = EdgeCaseTimeout + 1
    /\ exec.out.test.errorCode = "TEST_TIMEOUT"
    /\ exec.out.test.errorDetails.timeout = EdgeCaseTimeout

\* C7: a failed TestResult never stops the suite (v2): the tests are
\* recorded in plan order without gaps, the run goes on to the next step
\* after a failed one, and when the suite is closing with part of its plan
\* not run, the cause is an error thrown outside a TestResult.
C7_FailedTestDoesNotStopSuite ==
    (impl = "v2" /\ pc \in {"run", "closing", "append"}) =>
      /\ Len(result.tests) <= Len(CurrentPlan)
      /\ \A i \in DOMAIN result.tests : result.tests[i].name = CurrentPlan[i].name
      /\ pc = "run" => Len(result.tests) = idx - 1 /\ result.status = Undefined
      /\ (pc # "run" /\ Len(result.tests) = Len(CurrentPlan)) => result.status = "passed"
      /\ (pc # "run" /\ Len(result.tests) < Len(CurrentPlan)) =>
           /\ result.status = "failed"
           /\ result.error.message \in
                {NotIterableError.message, TypeErrorReadingMessage.message}

\* a suite that ran its whole plan although an earlier test timed out
C7_Witness ==
    /\ impl = "v2" /\ pc = "append"
    /\ result.status = "passed"
    /\ Len(result.tests) = Len(CurrentPlan)
    /\ \E i \in DOMAIN result.tests :
         /\ i < Len(result.tests)
         /\ result.tests[i].status = "failed"
         /\ result.tests[i].errorCode = "TEST_TIMEOUT"
         /\ result.tests[i + 1].status = "passed"

\* C8: when an error escapes a phase outside a TestResult (v2), no later
\* step runs, the SuiteResult is failed with that error, the Session is
\* closed, and tests keeps in order what was recorded before the error.
C8_EscapedErrorAbortsSuite ==
    impl = "v2" =>
      /\ (pc \in {"closing", "append"} /\ result.status = "failed") =>
           /\ client # 0
           /\ idx <= Len(CurrentPlan)
           /\ Len(result.tests) = idx - 1
           /\ \A i \in DOMAIN result.tests : result.tests[i].name = CurrentPlan[i].name
           /\ result.error = IF CurrentPlan[idx].kind = "notIterable"
                             THEN ErrorFields(NotIterableError)
                             ELSE ErrorFields(TypeErrorReadingMessage)
           /\ Len(results) = 0 =>
                metrics.totalTestsRun =
                  Len(result.tests) + (IF CurrentPlan[idx].kind = "notIterable" THEN 0 ELSE 1)
      /\ (pc = "append" /\ client # 0) =>
           ~clients[client].open /\ clients[client].closeCalls = 1
      /\ (SuiteOver /\ LastSession # 0 /\ LastSuite.status = "failed") =>
           /\ ~clients[LastSession].open
           /\ LastSuite.tests = result.tests
           /\ LastSuite.error = result.error
           /\ Len(LastSuite.tests) = idx - 1
           /\ LastSuite.metrics.totalTests = idx - 1

\* three discovery tests recorded, then a loop over a non-iterable
C8_Witness ==
    /\ impl = "v2" /\ SuiteOver /\ LastSession # 0
    /\ LastSuite.status = "failed"
    /\ Len(LastSuite.tests) = 3
    /\ LastSuite.error.message = NotIterableError.message
    /\ ~clients[LastSession].open

\* C9: connect() succeeding with the liveness call rejecting is a failed
\* connection attempt (v2): it is counted and retried while attempts
\* remain, the phases only ever run on a client whose liveness call
\* succeeded, and after the last attempt the suite fails with a
\* CONNECTION_ERROR top-level error and no TestResult.
C9_LivenessFailureIsConnectionFailure ==
    impl = "v2" =>
      /\ client # 0 => clients[client].live
      /\ \A i \in DOMAIN sessions : sessions[i] # 0 => clients[sessions[i]].live
      /\ (pc = "connect" /\ attemptLog # << >>
            /\ attemptLog[Len(attemptLog)] = "verify") =>
           /\ Attempts = Len(attemptLog) /\ attempt = Len(attemptLog)
           /\ lastError.code = "CONNECTION_ERROR"
           /\ client = 0 /\ result.tests = << >>
      /\ pc \notin {"connect", "verify"} =>
           \A i \in DOMAIN attemptLog :
             attemptLog[i] = "verify" =>
               i < Len(attemptLog) \/ i = options.retryAttempts + 1
      /\ (SuiteOver /\ LastSession = 0 /\ attemptLog # << >>
            /\ attemptLog[Len(attemptLog)] = "verify") =>
           /\ Len(attemptLog) = options.retryAttempts + 1
           /\ LastSuite.status = "failed"
           /\ LastSuite.tests = << >>
           /\ LastSuite.error.code = "CONNECTION_ERROR"
           /\ LastSuite.error.message =
                "Failed to connect after " \o ToString(options.retryAttempts + 1) \o " attempts"
           /\ LastSuite.error.details =
                [transport |-> TransportLabel(transportConfig),
                 lastError |-> "Connection established but server not responding correctly"]

\* both attempts connect and both liveness calls reject
C9_Witness ==
    /\ impl = "v2" /\ options.retryAttempts = 1
    /\ SuiteOver /\ LastSession = 0
    /\ attemptLog = << "verify", "verify" >>
    /\ LastSuite.error.code = "CONNECTION_ERROR"
    /\ LastSuite.tests = << >>

\* C10: the CLI exits with status 0 exactly when a report was generated
\* and its failed-suite count is zero, and with status 1 otherwise, the
\* framework raising included.
C10_ExitStatus ==
    pc = "exited" =>
      /\ exitCode \in {0, 1}
      /\ exitCode = 0 <=> (report.generated /\ report.summary.failed = 0)
      /\ report.generated => report.summary.failed = CountStatus(results, "failed")
      /\ ~report.generated => report.raised

\* a run whose one suite failed exits with status 1
C10_Witness ==
    /\ pc = "exited" /\ exitCode = 1
    /\ report.generated /\ report.summary.failed = 1
    /\ LastSuite.status = "failed"

\* C11: in a recorded config every header whose key contains 'auth',
\* 'token' or 'key' (case-insensitively) and the auth field hold a fixed
\* placeholder, so two descriptors that differ only in those secret values
\* have the same recorded config.
C11_SecretsRedacted ==
    call.done =>
      \E placeholder \in {"[REDACTED]", "***"} :
        /\ \A key \in DOMAIN call.config.headers :
             SecretKey(key) => call.out.headers[key] = placeholder
        /\ call.config.auth \notin {Undefined, ""} => call.out.auth = placeholder
        /\ call.out2 = call.out

\* the absent entries of schema.required, in order
MissingFields(data, schema) ==
    SelectSeq(schema.required, LAMBDA f : f \notin DOMAIN data.map)

\* the properties with an enum whose supplied value is outside it, in order
InvalidProperties(data, schema) ==
    SelectSeq(schema.properties,
              LAMBDA p : p.hasEnum /\ p.name \in DOMAIN data.map
                           /\ data.map[p.name] \notin Range(p.enum))

\* what C14 says of the verdict and of the errors, for arguments that are given
ValidationVerdict ==
    LET data == call.data
        schema == call.schema
        missing == MissingFields(data, schema)
        invalid == InvalidProperties(data, schema)
    IN /\ ~call.out.threw
       /\ call.out.valid <=> (Len(missing) = 0 /\ Len(invalid) = 0)
       /\ call.out.errors =
            [i \in 1..Len(missing) |-> "Missing required field: " \o missing[i]]
              \o [i \in 1..Len(invalid) |->
                    "Invalid value for " \o invalid[i].name \o ": \""
                      \o data.map[invalid[i].name] \o "\""]

ToolNamed(name) == ServerTools[CHOOSE i \in DOMAIN ServerTools : ServerTools[i].name = name]
ToolFound(name) == \E i \in DOMAIN ServerTools : ServerTools[i].name = name

\* the tool of test i is listed and test i validates its arguments
Validates(i) ==
    /\ call.log[i].listed = "lists"
    /\ ToolFound(call.toolTests[i].toolName)
    /\ call.validateSchemas
    /\ ToolNamed(call.toolTests[i].toolName).hasSchema

ValidationOf(i) ==
    validateAgainstSchema(call.toolTests[i].arguments,
                          ToolNamed(call.toolTests[i].toolName).inputSchema)

\* the first assertion of test i that does not return, 0 if all return
FirstThrow(i) ==
    LET a == call.toolTests[i].assertions
    IN IF \A j \in DOMAIN a : a[j] = "ok" THEN 0
       ELSE CHOOSE j \in DOMAIN a : a[j] # "ok" /\ \A k \in 1..(j - 1) : a[k] = "ok"

\* the kind of failure test i has by its inputs and by what the server did
FailureKind(i) ==
    LET t == call.toolTests[i]
        l == call.log[i]
    IN  IF l.listed = "rejects" THEN "uncoded"
        ELSE IF ~ToolFound(t.toolName) THEN "TOOL_NOT_FOUND"
        ELSE IF Validates(i) /\ ~t.arguments.given THEN "uncoded"
        ELSE IF Validates(i) /\ ~ValidationOf(i).valid THEN "SCHEMA_VALIDATION_FAILED"
        ELSE IF l.called = "never" THEN "TEST_TIMEOUT"
        ELSE IF l.called = "rejects" THEN "TOOL_EXECUTION_FAILED"
        ELSE IF l.called = "rejectsNullish" THEN "uncoded"
        ELSE IF l.called \in {"null", "noContent"} THEN "INVALID_RESPONSE"
        ELSE IF FirstThrow(i) = 0 THEN "none"
        ELSE IF t.assertions[FirstThrow(i)] = "throws" THEN "ASSERTION_FAILED"
        ELSE "uncoded"

\* the details payload that goes with a kind
FailureDetails(i, kind) ==
    LET t == call.toolTests[i]
    IN CASE kind = "TOOL_NOT_FOUND" ->
              [availableTools |-> << "mittwald_server_list", "add", "echo" >>]
         [] kind = "SCHEMA_VALIDATION_FAILED" ->
              [errors |-> ValidationOf(i).errors, suggestions |-> ValidationOf(i).suggestions]
         [] kind = "TOOL_EXECUTION_FAILED" ->
              [tool |-> t.toolName, arguments |-> t.arguments, error |-> "request failed"]
         [] kind = "INVALID_RESPONSE" -> [response |-> call.log[i].called]
         [] kind = "ASSERTION_FAILED" ->
              [assertionIndex |-> FirstThrow(i) - 1, tool |-> t.toolName]
         [] kind = "TEST_TIMEOUT" ->
              [testName |-> "Tool Test: " \o t.toolName, timeout |-> options.timeout]
         [] OTHER -> NoDetails

ToolCodes ==
    {"TOOL_NOT_FOUND", "SCHEMA_VALIDATION_FAILED", "TOOL_EXECUTION_FAILED",
     "INVALID_RESPONSE", "ASSERTION_FAILED"}

\* every tool test so far has its own TestResult, and the suite passes
ToolTestsUnaffected ==
    /\ Len(call.log) = Len(result.tests)
    /\ Len(result.tests) <= Len(call.toolTests)
    /\ \A i \in DOMAIN result.tests :
         result.tests[i].name = "Tool Test: " \o call.toolTests[i].toolName
    /\ call.done =>
         /\ Len(result.tests) = Len(call.toolTests)
         /\ result.status = "passed"
         /\ result.metrics.failedTests = CountStatus(result.tests, "failed")

C13_CallAfterValidation ==
    (pc = "tools" /\ call.validateSchemas) =>
      \A i \in DOMAIN call.log :
        LET e == call.log[i].events
            t == call.toolTests[i]
            schema == ToolFound(t.toolName) /\ ToolNamed(t.toolName).hasSchema
            valid == ~ValidationOf(i).threw /\ ValidationOf(i).valid
        IN /\ \A k \in DOMAIN e :
                e[k] = "callTool" =>
                  /\ call.log[i].listed = "lists" /\ ToolFound(t.toolName)
                  /\ \E j \in 1..(k - 1) : e[j] = "listTools"
                  /\ schema => (valid /\ \E j \in 1..(k - 1) : e[j] = "validate")
           /\ \A k \in DOMAIN e :
                e[k] = "assertion" => \E j \in 1..(k - 1) : e[j] = "callTool"
           /\ (~ToolFound(t.toolName) \/ (schema /\ ~valid)) =>
                /\ \A k \in DOMAIN e : e[k] \notin {"callTool", "assertion"}
                /\ call.log[i].assertions = 0

\* arguments {} for a tool that requires `output`: validated, never called
C13_Witness ==
    /\ pc = "tools" /\ call.validateSchemas /\ Len(call.log) >= 1
    /\ call.toolTests[1].assertions = << "ok" >>
    /\ call.log[1].events = << "listTools", "validate" >>
    /\ result.tests[1].errorCode = "SCHEMA_VALIDATION_FAILED"
    /\ metrics.totalAssertions = 0

(***************************************************************************)
(* Built-in tests: the log entry and the TestResult of the test named n.   *)
(***************************************************************************)
BuiltinRuns(names) ==
    { i \in DOMAIN call.log : i \in DOMAIN result.tests /\ call.log[i].name \in names }

\* C15: in the Discovery phase of the v2 framework, a listResources or
\* listPrompts call that rejects with a 'Method not found' error gives a
\* passed 'List Resources' / 'List Prompts' test with count 0, and any other
\* rejection gives a failed test.
C15_MethodNotFoundIsZeroCount ==
    (pc = "phases" /\ impl = "v2") =>
      \A i \in BuiltinRuns({"List Resources", "List Prompts"}) :
        LET entry == call.log[i] IN
        entry.reply.kind = "rejects" =>
          IF includes(entry.reply.val.message, MethodNotFound)
          THEN /\ result.tests[i].status = "passed"
               /\ entry.returned
               /\ entry.data.count = 0
          ELSE result.tests[i].status = "failed"

\* C16: in the Compliance phase, 'Error handling compliance' is passed when
\* callTool with the unknown tool name rejects and failed when that call
\* does not reject.
C16_UnknownToolMustReject ==
    pc = "phases" =>
      \A i \in BuiltinRuns({"Error handling compliance"}) :
        LET entry == call.log[i] IN
        /\ entry.reply.kind = "rejects" => result.tests[i].status = "passed"
        /\ entry.reply.kind = "returns" => result.tests[i].status = "failed"

\* C17: in 'Concurrent Requests', when K listTools calls are in flight
\* together and exactly F of them reject (the others fulfil), the test
\* reports successful = K - F and failed = F and is passed, and the tests
\* after it on the same client still run.
C17_ConcurrentPartialFailure ==
    pc = "phases" =>
      \A i \in BuiltinRuns({"Concurrent Requests"}) :
        LET entry == call.log[i]
            K == entry.reply.fulfilled + entry.reply.rejected
        IN  entry.reply.pending = 0 =>
              /\ result.tests[i].status = "passed"
              /\ entry.returned
              /\ {"successful", "failed"} \subseteq DOMAIN entry.data
              /\ entry.data.successful = K - entry.reply.rejected
              /\ entry.data.failed = entry.reply.rejected
              /\ call.done => Len(result.tests) = Len(PhasePlan)

(***************************************************************************)
(* Counting afresh what a report counts.                                   *)
(***************************************************************************)
TestsOf(rs) == UNION { { <<i, j>> : j \in DOMAIN rs[i].tests } : i \in DOMAIN rs }

SumOfTotals(byTransport) ==
    LET RECURSIVE Sum(_)
        Sum(keys) == IF keys = {} THEN 0
                     ELSE LET t == CHOOSE k \in keys : TRUE
                          IN byTransport[t].total + Sum(keys \ {t})
    IN Sum(DOMAIN byTransport)

\* C18: after any sequence of testServer calls the report of generateReport
\* has summary.total = summary.passed + summary.failed = the number of
\* SuiteResults, summary.totalTests = summary.passedTests +
\* summary.failedTests = the number of TestResults of all SuiteResults, and
\* every byTransport entry has total = passed + failed, the totals of the
\* entries adding up to summary.total.
C18_ReportCounts ==
    (pc \in {"reported", "exited"} /\ report.generated) =>
      LET s == report.summary IN
      /\ s.total = s.passed + s.failed
      /\ s.total = Len(results)
      /\ s.totalTests = s.passedTests + s.failedTests
      /\ s.totalTests = Cardinality(TestsOf(results))
      /\ \A t \in DOMAIN s.byTransport :
           s.byTransport[t].total = s.byTransport[t].passed + s.byTransport[t].failed
      /\ SumOfTotals(s.byTransport) = s.total

\* a report over two SuiteResults of different transports, one of them
\* failed, with a failed test among the tests
C18_Witness ==
    /\ pc = "reported" /\ report.generated
    /\ report.summary.total = 2 /\ report.summary.failed = 1
    /\ Cardinality(DOMAIN report.summary.byTransport) = 2
    /\ report.summary.failedTests > 0 /\ report.summary.passedTests > 0

\* the results list a caller reads from the report it holds
ReportResults ==
    IF report.results = ThisResults THEN results ELSE report.results

\* C19: a Report returned by generateReport is never changed afterwards:
\* later testServer and generateReport calls on the same framework instance
\* leave its summary, metrics and results list as they were when it was
\* serialized.
C19_ReportNeverChanges ==
    report.generated =>
      /\ ReportResults = report.serialized
      /\ report.summary = Summary(report.serialized)

(***************************************************************************)
(* verifyTransport: the attempts made so far.                              *)
(***************************************************************************)
OtherLabel(label) == IF label = "sse" THEN "streamableHttp" ELSE "sse"

ConnectWon(i) == i \in DOMAIN call.log /\ call.log[i].connect = "won"

\* C20: verifyTransport(url, suspected) attempts the handshakes in order,
\* the suspected label first and then the other HTTP-family label, starting
\* the second only when the first has failed or timed out; it returns the
\* first label whose connect() wins the race against the timeout, with
\* confidence 100 and after closing that connection, and returns null
\* exactly when both attempts fail.
C20_VerifyTransport ==
    pc = "verifyTransport" =>
      /\ Len(call.log) <= 2
      /\ \A i \in DOMAIN call.log :
           call.log[i].transport = IF i = 1 THEN call.suspected
                                   ELSE OtherLabel(call.suspected)
      /\ Len(call.log) = 2 => call.log[1].connect \in {"failed", "timeout"}
      /\ call.done =>
           /\ call.returns = "null" <=> (~ConnectWon(1) /\ ~ConnectWon(2))
           /\ call.returns = "object" =>
                \E i \in DOMAIN call.log :
                  /\ ConnectWon(i) /\ \A j \in 1..(i - 1) : ~ConnectWon(j)
                  /\ call.value = Verified(call.log[i].transport)
                  /\ call.log[i].close = "fulfils"

(***************************************************************************)
(* The probe of the CLI's auto mode, while main still holds it.            *)
(***************************************************************************)
Probed == call.method = "main" /\ ~call.done /\ call.probe.outcome = "end"

HighestConfidence ==
    CHOOSE c \in { classify(r).confidence : r \in Responses } :
      \A r \in Responses : classify(r).confidence <= c

HeaderLabel(header) == IF header = "sse" THEN "sse" ELSE "streamableHttp"

\* C22: detectTransport on a response with an explicit x-mcp-transport
\* header returns the label the header names (sse for 'sse', streamableHttp
\* for 'streamablehttp' or 'streamable-http') with the highest confidence of
\* any classification, whatever the status code and the body are.
C22_ExplicitHeaderDecides ==
    (Probed /\ call.probe.res.header # Undefined) =>
      /\ call.detection.state = "resolved"
      /\ call.detection.value.transport = HeaderLabel(call.probe.res.header)
      /\ call.detection.value.confidence = HighestConfidence

\* C23: detectTransport never raises or rejects: for every URL string,
\* malformed ones included, and every network outcome it resolves to a
\* DetectionResult with label sse, streamableHttp or unknown and a
\* confidence in 0..100.
C23_DetectNeverRaises ==
    (call.method = "main" /\ ~call.done /\ pc # "auto") =>
      /\ call.detection.state = "resolved"
      /\ call.detection.value.transport \in {"sse", "streamableHttp", "unknown"}
      /\ call.detection.value.confidence \in 0..100

\* main is past the auto branch
AutoDecided == call.method = "main" /\ "confirmed" \in DOMAIN call

NothingTested ==
    /\ clients = << >> /\ results = << >> /\ ~report.generated
    /\ metrics.connectionAttempts = 0

\* C24: in the CLI's auto mode the suite runs only with a label that
\* verifyTransport confirmed by a handshake: when detection returns unknown
\* or verification returns null the process exits non-zero without
\* connecting a test Session or writing a report, and the probed label
\* alone is never used to run tests.
C24_AutoRunsVerifiedOnly ==
    call.method = "main" =>
      /\ ~AutoDecided =>
           /\ NothingTested
           /\ (pc # "auto" /\ call.detection.state = "resolved"
                 /\ call.detection.value.transport = "unknown") =>
                pc = "exited" /\ exitCode = 1
      /\ AutoDecided =>
           /\ call.returns = "null" =>
                pc = "exited" /\ exitCode = 1 /\ NothingTested
           /\ call.returns = "object" =>
                /\ call.detected # "unknown"
                /\ transportConfig.type \in call.confirmed
                /\ \A i \in DOMAIN results : results[i].transport \in call.confirmed

\* the probe said streamableHttp, only the SSE handshake succeeded, and the
\* suite ran over SSE
C24_Witness ==
    /\ AutoDecided /\ pc = "exited" /\ report.generated
    /\ call.detected = "streamableHttp" /\ call.confirmed = {"sse"}
    /\ transportConfig.type = "sse"
    /\ Len(results) = 1 /\ results[1].status = "passed"

CountedAssertions ==
    LET RECURSIVE Counted(_)
        Counted(i) == IF i = 0 THEN 0 ELSE Counted(i - 1) + call.log[i].assertions
    IN Counted(Len(call.log))

\* C26: a tool test that timed out is recorded as failed with TEST_TIMEOUT,
\* and when its function settles later neither that TestResult, nor the
\* TestResults recorded after it, nor the counters of the run change: tests
\* run stays the number of tests executed, assertions run stays what was
\* counted while the tests were being executed.
C26_LateSettlingChangesNothing ==
    pc = "toolsTimed" =>
      /\ \A i \in DOMAIN call.log :
           call.log[i].late =>
             /\ result.tests[i].status = "failed"
             /\ result.tests[i].errorCode = "TEST_TIMEOUT"
      /\ metrics.totalTestsRun = Len(result.tests)
      /\ metrics.totalAssertions = CountedAssertions

(***************************************************************************)
(* generateRecommendations: what the run recorded.                         *)
(***************************************************************************)
RecordedTests ==
    UNION { { [suite |-> s, index |-> i] : i \in DOMAIN call.results[s].tests } :
              s \in DOMAIN call.results }

TestAt(p) == call.results[p.suite].tests[p.index]

\* the entries a list test of that name reported over the whole run
Discovered(name) ==
    { p \in RecordedTests :
        /\ TestAt(p).name = name /\ TestAt(p).status = "passed"
        /\ TestAt(p).result.count > 0 }

Recommended(type) == { i \in DOMAIN call.out : call.out[i].type = type }

\* C27: generateRecommendations emits one performance recommendation exactly
\* when some TestResult took more than 1000 ms, and it lists exactly those
\* tests; one capability recommendation exactly when the run discovered no
\* tool, no resource and no prompt; one stability recommendation exactly
\* when some 'Rapid Sequential Requests' result has a variance above 100.
C27_Recommendations ==
    (pc = "recommend" /\ call.done) =>
      LET slow == { p \in RecordedTests : TestAt(p).duration > 1000 }
          unstable == { p \in RecordedTests :
                          /\ TestAt(p).name = "Rapid Sequential Requests"
                          /\ TestAt(p).status = "passed"
                          /\ TestAt(p).result.variance > 100 }
      IN /\ \A type \in {"performance", "capability", "stability"} :
              Cardinality(Recommended(type)) <= 1
         /\ \A i \in DOMAIN call.out :
              call.out[i].type \in {"performance", "capability", "stability"}
         /\ Recommended("performance") # {} <=> slow # {}
         /\ \A i \in Recommended("performance") :
              /\ Len(call.out[i].details) = Cardinality(slow)
              /\ \A p \in slow :
                   \E k \in DOMAIN call.out[i].details :
                     call.out[i].details[k] = [name |-> TestAt(p).name,
                                               duration |-> TestAt(p).duration]
         /\ Recommended("capability") # {} <=>
              (Discovered("List Tools") = {} /\ Discovered("List Resources") = {}
                 /\ Discovered("List Prompts") = {})
         /\ Recommended("stability") # {} <=> unstable # {}

\* a run with a slow test, a variance of exactly 100 and tools discovered:
\* the performance recommendation alone
C27_Witness ==
    /\ pc = "recommend" /\ call.done
    /\ Len(call.out) = 1 /\ call.out[1].type = "performance"
    /\ \E p \in RecordedTests :
         /\ TestAt(p).name = "Rapid Sequential Requests"
         /\ TestAt(p).status = "passed"
         /\ TestAt(p).result.variance = 100
    /\ Discovered("List Tools") # {}

(***************************************************************************)
(* The phase a recorded test belongs to, by its name.                      *)
(***************************************************************************)
NamesOf(steps) == {steps[i].name : i \in DOMAIN steps}

PhaseRank(name) ==
    CASE name \in NamesOf(DiscoveryTests) -> 1
      [] name \in NamesOf(StabilityTests) -> 2
      [] name \in NamesOf(ComplianceTests) -> 3
      [] name \in NamesOf(PerformanceTests) -> 4
      [] name \in NamesOf(ErrorHandlingTests) -> 5
      [] name \in Range(CustomNames) -> 6
      [] name \in Range(ToolNames) -> 7
      [] name \in Range(TransportNames) -> 8

TestsOfRank(ts, rank) == {i \in DOMAIN ts : PhaseRank(ts[i].name) = rank}

\* C28: testServer (v2) runs its phases in the order Discovery, Stability,
\* Compliance, Performance, ErrorHandling, custom tests, tool tests,
\* transport-specific tests, one test at a time: the next test starts when
\* the TestResult of the one before is recorded, so the tests list is in
\* execution order; a run that went through all its phases ran Discovery
\* and Stability unless they were disabled, the other built-in phases when
\* enabled, and the caller's tests that were supplied.
C28_PhaseOrder ==
    (impl = "v2" /\ pc \in {"run", "closing", "append"}) =>
      /\ \A i, j \in DOMAIN result.tests :
           i < j => PhaseRank(result.tests[i].name) <= PhaseRank(result.tests[j].name)
      /\ \A i, j \in DOMAIN result.tests :
           result.tests[i].name = result.tests[j].name => i = j
      /\ pc = "run" => Len(result.tests) = idx - 1
      /\ result.status = "passed" =>
           LET ran(rank) == Cardinality(TestsOfRank(result.tests, rank)) IN
           /\ ran(1) = IF tests.testDiscovery THEN 3 ELSE 0
           /\ ran(2) = IF tests.testStability THEN 3 ELSE 0
           /\ ran(3) = IF tests.testProtocolCompliance THEN 2 ELSE 0
           /\ ran(4) = IF tests.testPerformance THEN 2 ELSE 0
           /\ ran(5) = IF tests.testErrorHandling THEN 2 ELSE 0
           /\ ran(6) = tests.customTests
           /\ ran(7) = tests.toolTests
           /\ ran(8) = IF tests.transportType = transportConfig.type
                       THEN tests.transportTests ELSE 0

\* a suite with every phase enabled and every kind of test supplied, run to
\* its end, a failed test among them
C28_Witness ==
    /\ impl = "v2" /\ pc = "append" /\ result.status = "passed"
    /\ \A rank \in 1..8 : TestsOfRank(result.tests, rank) # {}
    /\ \E i \in DOMAIN result.tests : result.tests[i].status = "failed"

(***************************************************************************)
(* The assertions stage of a tool test.                                    *)
(***************************************************************************)
\* the assertions of tool test i that raise, by position from 1
Raising(i) ==
    {k \in DOMAIN call.toolTests[i].assertions : call.toolTests[i].assertions[k] # "ok"}

FirstRaising(i) == CHOOSE k \in Raising(i) : \A j \in Raising(i) : k <= j

AssertionsExecuted(i) ==
    Cardinality({k \in DOMAIN call.log[i].events : call.log[i].events[k] = "assertion"})

\* tool test i got a well-formed response from callTool
ReachedAssertions(i) ==
    /\ call.log[i].called = "content"
    /\ \E k \in DOMAIN call.log[i].events : call.log[i].events[k] = "callTool"

TotalAssertionsCounted ==
    LET RECURSIVE Counted(_)
        Counted(i) == IF i = 0 THEN 0 ELSE Counted(i - 1) + call.log[i].assertions
    IN Counted(Len(call.log))

\* C29: the assertions of a tool test run in index order and stop at the
\* first one that raises: when assertion i (from 0) is the first to raise,
\* exactly i + 1 assertions were executed, totalAssertions grew by i + 1 and
\* the TestResult fails with ASSERTION_FAILED and assertionIndex i; when
\* none raises all n were executed and totalAssertions grew by n; a tool
\* test that fails before the assertions stage leaves totalAssertions alone.
C29_AssertionsStopAtFirstFailure ==
    pc = "tools" =>
      /\ metrics.totalAssertions = TotalAssertionsCounted
      /\ \A i \in DOMAIN call.log :
           LET n == Len(call.toolTests[i].assertions) IN
           IF ~ReachedAssertions(i)
           THEN call.log[i].assertions = 0 /\ AssertionsExecuted(i) = 0
           ELSE IF Raising(i) = {}
           THEN /\ call.log[i].assertions = n /\ AssertionsExecuted(i) = n
                /\ result.tests[i].status = "passed"
           ELSE /\ call.log[i].assertions = FirstRaising(i)
                /\ AssertionsExecuted(i) = FirstRaising(i)
                /\ result.tests[i].status = "failed"
                /\ result.tests[i].errorCode = "ASSERTION_FAILED"
                /\ result.tests[i].errorDetails =
                     [assertionIndex |-> FirstRaising(i) - 1,
                      tool |-> call.toolTests[i].toolName]

\* the sessions of the suites already recorded that are still open
OpenSessions == {i \in DOMAIN sessions : sessions[i] # 0 /\ clients[sessions[i]].open}

\* C30: testServerMultiTransport runs one suite per descriptor, one after
\* another: while a suite is running or about to start, the Session of
\* every suite before it is closed and its SuiteResult is in results; every
\* suite, failed ones and connection failures included, leaves exactly one
\* SuiteResult, in the order of the descriptors.
C30_SuitesOneAfterAnother ==
    /\ Len(results) = Len(sessions)
    /\ Len(results) <= MaxSuites
    /\ pc \in {"idle", "connect", "verify", "run", "closing", "append"} => OpenSessions = {}
    /\ (pc = "idle" /\ Len(results) > 0) =>
         /\ LastSuite.status \in {"passed", "failed"}
         /\ LastSuite.transport = IF impl = "v2" THEN transportConfig.type
                                  ELSE TransportLabel(transportConfig)

(***************************************************************************)
(* detectTransport, event by event: the response the server gave.          *)
(***************************************************************************)
\* the response's Content-Type or body indicates text/event-stream
IndicatesEventStream(res) ==
    includes(res.contentType, TextEventStream) \/ includes(res.body.text, TextEventStream)

\* a successful response: status 200, and no 'Not Acceptable' in its body
Successful(res) == res.statusCode = 200 /\ ~includes(res.body.text, NotAcceptable)

\* C31: when the server answers with a successful response whose
\* Content-Type or body indicates text/event-stream, detectTransport
\* delivers label sse with confidence 80, also when the server keeps the
\* event stream open and never ends the response.
C31_EventStreamIsSse ==
    (pc = "probe" /\ call.responded /\ call.received >= call.server.res.length
       /\ call.server.res.length <= BodyCap
       /\ Successful(call.server.res) /\ IndicatesEventStream(call.server.res)
       /\ (call.ended \/ call.server.behaviour \in {"open quiet", "open chatty"})
       /\ call.detection.state = "resolved") =>
      /\ call.detection.value.transport = "sse"
      /\ call.detection.value.confidence = 80

\* exactly one DetectionResult was delivered: the first value handed to
\* resolve()
Delivered ==
    /\ call.stage \in {"aborted", "closed"}
    /\ call.detection.state = "resolved"
    /\ Len(call.resolves) >= 1
    /\ call.detection.value = call.resolves[1]

\* C39: every detectTransport call on a well-formed URL eventually delivers
\* exactly one DetectionResult, the one of the first of response end,
\* response error, request error and timeout to happen, and what happens
\* afterwards does not change it.
C39_ExactlyOneDetectionResult ==
    (pc = "probe" /\ call.url.protocol # Undefined) => <>[]Delivered

\* C32: under the name MCPTestFramework the package entry point gives a
\* framework on which testServer(command, args, testSuite) does what the
\* original lib/mcp-test-framework.js does: for the same server and suite
\* the suite status and the statuses of the TestResults are the same.
C32_AliasBehavesLikeOriginal ==
    (call.method = "testServer(command, args, testSuite)" /\ call.done
       /\ pc = "idle" /\ Len(results) = 1) =>
      /\ results[1].status = call.legacy.status
      /\ [i \in DOMAIN results[1].tests |-> results[1].tests[i].status] = call.legacy.tests

\* C33: a SuiteResult (v2) is passed exactly when a Session was obtained
\* and no error escaped a phase, that is when every test of the plan was
\* run and recorded, whatever the statuses of its TestResults; the report's
\* failed count is the number of failed SuiteResults, so a run whose suite
\* passed with failed tests has summary.failed = 0 and exits with status 0.
C33_PassedDespiteFailedTests ==
    (impl = "v2" /\ SuiteOver) =>
      /\ LastSuite.status = "passed" <=>
           (LastSession # 0 /\ Len(LastSuite.tests) = Len(CurrentPlan)
              /\ \A i \in DOMAIN CurrentPlan : CurrentPlan[i].kind # "notIterable")
      /\ (pc \in {"reported", "exited"} /\ report.generated) =>
           /\ report.summary.failed = CountStatus(results, "failed")
           /\ (\A i \in DOMAIN results : results[i].status = "passed") =>
                report.summary.failed = 0
      /\ (pc = "exited" /\ LastSuite.status = "passed") => exitCode = 0

\* a CLI run whose suite passed with failed tests: exit status 0
C33_Witness ==
    /\ impl = "v2" /\ pc = "exited" /\ exitCode = 0
    /\ LastSuite.status = "passed"
    /\ CountStatus(LastSuite.tests, "failed") = MaxFaults
    /\ report.summary.failed = 0 /\ report.summary.failedTests = MaxFaults

\* C34: no request is issued on a Session after client.close() was called
\* on it, also not by a test function that timed out and is still running
\* when the suite closes the Session.
C34_NoRequestAfterClose ==
    pc = "orphans" =>
      \A k \in DOMAIN call.requests : call.requests[k].session = "open"

\* C35: after any sequence of completed testServer calls on one framework
\* instance (v2), metrics.totalTestsRun equals the number of TestResults
\* recorded across all SuiteResults, and metrics.connectionAttempts is at
\* least the number of SuiteResults.
C35_CountersMatchRecords ==
    (impl = "v2" /\ pc = "idle") =>
      /\ metrics.totalTestsRun = SumTests(results, Undefined)
      /\ metrics.connectionAttempts >= Len(results)

\* C36: when verifyTransport returns, with a label or with null, no
\* connection it opened remains open: the client of a failed attempt and a
\* client whose connect() lost the 3-second race but completes later are
\* closed.
C36_VerifyLeavesNothingOpen ==
    (pc = "verifyTransport" /\ call.done) => call.open = {}

\* C37: the arguments checked by schema validation are the arguments sent
\* to callTool: a tool test without an arguments field is validated as the
\* empty argument map, so a tool with required fields yields a failure with
\* SCHEMA_VALIDATION_FAILED that lists them, not a failure of another kind.
C37_AbsentArgumentsValidatedAsEmpty ==
    pc = "tools" =>
      \A i \in DOMAIN result.tests :
        LET schema == ToolNamed(call.toolTests[i].toolName).inputSchema
        IN (/\ Validates(i)
            /\ ~call.toolTests[i].arguments.given
            /\ schema.hasRequired /\ Len(schema.required) > 0) =>
             /\ result.tests[i].status = "failed"
             /\ result.tests[i].errorCode = "SCHEMA_VALIDATION_FAILED"
             /\ result.tests[i].errorDetails.errors =
                  [k \in DOMAIN schema.required |->
                     "Missing required field: " \o schema.required[k]]

\* C38: generateReport (v2) returns the Report also when creating the
\* output directory or writing the artifact fails: nothing is raised, and
\* the summary returned, and with it the exit status of the CLI, is what it
\* is when the write succeeds.
C38_ReportDespiteFailedWrite ==
    (impl = "v2" /\ pc \in {"reported", "exited"}) =>
      /\ report.generated /\ ~report.raised
      /\ report.summary = Summary(results)
      /\ pc = "exited" => exitCode = ExitStatus(FALSE, Summary(results).failed)

\* the artifact was not written, the CLI exits 0 on the returned summary
C38_Witness ==
    /\ impl = "v2" /\ pc = "exited"
    /\ report.generated /\ ~report.saved
    /\ report.summary.total = 1 /\ report.summary.failed = 0
    /\ exitCode = 0

\* C40: sanitizeConfig leaves the caller's TransportDescriptor unchanged,
\* its headers and auth keep their real values: the connection is opened
\* with the real headers, and only the copy recorded in the SuiteResult is
\* redacted.
C40_CallerDescriptorUnchanged ==
    pc = "frame" =>
      /\ Deref(call.heap, call.heap.caller) = call.config
      /\ call.stage # "called" => call.recorded = sanitizeConfig(call.config)
      /\ call.stage = "opened" => call.sent = call.config.headers

\* a descriptor with a secret header and auth: the record is redacted, the
\* transport got the real value
C40_Witness ==
    /\ pc = "frame" /\ call.stage = "opened"
    /\ call.config.auth = "value-1"
    /\ \E key \in DOMAIN call.config.headers :
         /\ SecretKey(key)
         /\ call.recorded.headers[key] = "[REDACTED]"
         /\ call.sent[key] = call.config.headers[key]
         /\ call.sent[key] # "[REDACTED]"
    /\ call.recorded.auth = "[REDACTED]"
    /\ Deref(call.heap, call.heap.caller).auth = "value-1"

====
